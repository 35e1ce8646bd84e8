CONSTANTS
    Requests <- MCRequests
    Cap = 2
    MaxHandoffs = 1
    MaxItems = 2
    Recent = 1
    MaxRestarts = 1
SPECIFICATION Spec
CHECK_DEADLOCK FALSE
INVARIANTS EvidenceIsOnesOwn LabelsKeepTheirText AnswersPairUp RepliesStand FailedPhasesLeaveNothing
