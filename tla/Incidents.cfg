SPECIFICATION FairSpec
CONSTANTS
    x = x
    y = y
    z = z
    Candidates <- TwoCandidates
    Near <- TwoNear
    Weak = {y}
    MaxIncidents = 3
    MaxMoves = 2
    MaxDeaths = 1
INVARIANTS EvidenceIsLive DuplicatesLeadToOlder TidyUnlessDied
PROPERTY EvidenceIsWatched
