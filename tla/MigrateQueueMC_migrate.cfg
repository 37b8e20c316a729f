SPECIFICATION FairSpec
CONSTANTS
    m1 = m1
    m2 = m2
    m3 = m3
    m4 = m4
    Msg = {m1, m2, m3, m4}
    Waiting <- FirstThree
    Late = {}
    Goals = {"classic", "quorum"}
    MaxKills = 3
    Hasty = FALSE
INVARIANTS
    Inv
    NothingLost
    Completed
    OneCopyPerKill
PROPERTIES
    EveryRunEnds
    OrderKept
