\* Every event, shorthand and choice of options.
\* A behaviour is one construction and one call, after which nothing happens.
SPECIFICATION InputSpec
CHECK_DEADLOCK FALSE
CONSTANTS
    Inputs <- MadeInputs
    Now = 100
INVARIANTS
    PayloadSaysCall
    NoHollowGroup
    NoHookPosted
    PostsWithUsableConfig
