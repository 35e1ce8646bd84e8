CONSTANTS
    Tasks = {a1, a2, a3}
    Topics <- TwoTopics
    Redacted <- Scrubbed
    Growth = 2
    MaxConversations = 2
    MaxTurns = 2
    MaxSessions = 2
SPECIFICATION FairSpec
CHECK_DEADLOCK FALSE
INVARIANTS TitlesTell
PROPERTIES LabelsNeverGoBack EveryTaskEnds
