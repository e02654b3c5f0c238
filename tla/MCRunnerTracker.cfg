CONSTANTS
    Turns <- MCTurns
    Conversation <- MCConversation
    Configs <- MCOneConfig
SPECIFICATION FairSpec
INVARIANT GradedIsTracked
