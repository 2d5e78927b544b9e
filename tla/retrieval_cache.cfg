SPECIFICATION WorkerSpec
CONSTANTS
    Unset = unset
    NoWorkspace = nowhere
    NoProvider = none
    Refused = refused
    N = 3
    Label <- TheLabel
    File <- TheFile
    Parsed <- TheParsed
    Asked <- TheQuestion
    Rewritten <- TheRewrite
    Options <- OneManual
    Replies <- TheReplies
    Rankings <- TheRankings
    Dense <- TheDense
    LeftBare = {{1}}
    MaxManuals = 3
    MaxRetries = 1
    Concurrency = 2
    Rebuilds = 1
    MaxQuestions = 2
    LeadTokens = 1
    HeadingTokens = 1
    MarkerTokens = 1
    ReservedTokens = 1
INVARIANT OutlineOfRun
CHECK_DEADLOCK FALSE
