SPECIFICATION FairSpec
CONSTANTS
    Unset = unset
    NoWorkspace = nowhere
    NoProvider = none
    Refused = refused
    N = 3
    Label <- TheLabel
    File <- TheFile
    Parsed <- TheParsed
    Asked <- TheQuestion
    Rewritten <- TheRewrite
    Options <- TheOptions
    Replies <- TheReplies
    Rankings <- TheRankings
    Dense <- TheDense
    LeftBare = {{2}}
    MaxManuals = 3
    MaxRetries = 1
    Concurrency = 2
    Rebuilds = 1
    MaxQuestions = 1
    LeadTokens = 1
    HeadingTokens = 1
    MarkerTokens = 1
    ReservedTokens = 1
INVARIANTS
    TypeOK
    EmptyOnlyAfterFull
    FairMerge
    WithinBudget
    OfResolvedRevision
    OneVoice
PROPERTY Settles
CHECK_DEADLOCK FALSE
