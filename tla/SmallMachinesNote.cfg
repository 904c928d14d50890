SPECIFICATION Spec
CONSTANTS
    None = None
    Bad = Bad
    Prose = Prose
    Calls = {c1, c2}
    Requests = {r1, r2}
    Parts = {"findings"}
    MaxPushes = 1
    MaxAttempts = 2
    Life = 3
    Skew = 1
    ClientTicks = 4
    ClientChanges = 1
    Docs = {"a", "b"}
    MaxPerSubmit = 2
    MaxDispatches = 2
    IngestCrashes = 1
    MaxSaveFailures = 1
    BitWidth = 32
    Tools = {"schedule"}
    MaxFetch = 1
    Notice = 4
    Kickoffs = {4, 5}
    ReadTicks = 5
    MaxMoves = 1
    Weeks = {"1", "2"}
    MaxEnds = 2
    TrendPlayers = {"p"}
    Facts = {"", "Out"}
    Zero = ""
    Window = 2
    LastDay = 3
    TrendChanges = 1
    TrendCrashes = 1
    MaxRot = 1
    IsPR = TRUE
    CheckSHA = TRUE
    PageSize = 2
    Cap = 3
    ListChanges = 1
    MaxFailures = 1
    PerPosition = 1
    Rounds = 2
    Diffs <- MCDiffs
    Given <- MCGiven
    Forms <- MCForms
    Leagues <- MCLeagues
    LineupWeeks <- MCLineupWeeks
    Orders <- MCOrders
    Ttl <- MCTtl
    Posts <- MCPosts
    Artifacts <- MCArtifacts
    Reviews <- MCReviews
    Patches <- MCPatches
    Lists <- MCLists
    Bodies <- MCBodies
    Runs <- MCRuns
    sanitizeCheckName <- MCSanitizeCheckName
    Settings <- MCSettings
    Position <- MCPosition
    Projection <- MCProjection
    Players <- MCPlayers
    Changing <- MCChanging
    Ordered <- MCOrdered
SYMMETRY Symmetry
INVARIANTS
    NoteIsTrue
CHECK_DEADLOCK FALSE
