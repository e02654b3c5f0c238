CONSTANTS
    Turns <- MCTurns
    Conversation <- MCConversation
    Configs <- MCVerifyConfig
SPECIFICATION FairSpec
INVARIANT FailedPageNeverAborts
