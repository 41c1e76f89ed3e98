SPECIFICATION Spec
CONSTANTS
    N = 3
    Body <- MCBody
    Window <- MCWindow
    Workers = 2
    Attempts = 2
    Wants = {2}
CHECK_DEADLOCK FALSE
INVARIANT TypeOK
INVARIANT PipesHoldTheArticle
PROPERTY IsByteStream
PROPERTY ReadReturns
PROPERTY CloseLeavesOnlyStuckBodies
