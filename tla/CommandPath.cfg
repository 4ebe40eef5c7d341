CONSTANTS
    op = op
    sup = sup
    ic = ic
    signal = signal
    sign = sign
    NoOne = NoOne
    NoCommand = NoCommand
    People = {op, sup}
    Commands = {signal, sign}
    OnCorridor = {sign}
    RolesOf <- MCRolesOf
    ActionOf <- MCActionOf
SPECIFICATION FairSpec
INVARIANTS
    IInv
    EffectIsAuthorised
    ErrorAndDecisionAgree
    OutcomeMatchesRecord
    ExecutingIsInHand
PROPERTIES
    NeverRepeated
    KeepsPromise
    EveryCommandEnds
    ExecutedIsVerified
