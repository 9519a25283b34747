\* Builders are used once and the reader stops after its last page.
CHECK_DEADLOCK FALSE
SPECIFICATION DirSpec
CONSTANTS
    Nil = Nil
    Zero = Zero
    Bad = Bad
    Seed = Seed
    s1 = s1
    s2 = s2
    Schemas <- MCSchemas
    Session <- MCSession
    Client <- MCClient
    Ids = {1, 2}
    Chained = {"users", "admin_user_roles"}
    MaxNamed = 3
    MaxAdded = 2
    MaxKey = 2
    MaxSaves = 2
    DefaultLimit = 1
    MaxLimit = 2
    PageSize = 1
    Requests <- MCRequests
    MaxName = 4
    MaxPage = 5
INVARIANTS
    EveryRowValid
    OldIsCommitted
    WalkMissesOnlyByRace
    ShortPageCoversTotal
PROPERTIES
    OnlyWhatWasSet
    ImmutableStay
    AnswerIsTrue
