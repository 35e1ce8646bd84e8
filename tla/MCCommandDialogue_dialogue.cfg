CONSTANTS
    middle = middle
    low = low
    t = t
    u = u
    Contexts <- MCContexts
    Root = "*"
    Parent <- MCParent
    Commands <- MCCommands
    Owned <- MCOwned
SPECIFICATION DialogueSpec
CHECK_DEADLOCK FALSE
INVARIANTS ModesDoNotLeak
PROPERTIES RunsAsUnderstood
