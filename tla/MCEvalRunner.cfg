CONSTANTS
    Turns <- MCTurns
    Conversation <- MCConversation
    Configs <- MCConfigs
SPECIFICATION FairSpec
INVARIANTS
    TypeOK
    EveryQuestionOnce
    ReportOrderIsScheduleFree
    ReadsSeeSettledGraph
    UnflaggedMeansComplete
    LedgerIsHonest
    ManifestCoversStore
    TokensOutliveIngest
PROPERTIES
    ReadOnlyNeverWrites
    EveryRunEnds
    ImplementsRunContract
