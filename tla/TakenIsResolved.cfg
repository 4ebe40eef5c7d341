SPECIFICATION Spec
CONSTANTS
    x = x
    y = y
    z = z
    Candidates <- TwoCandidates
    Near <- TwoNear
    Weak = {}
    MaxIncidents = 3
    MaxMoves = 2
    MaxDeaths = 1
PROPERTY TakenIsForPeople
