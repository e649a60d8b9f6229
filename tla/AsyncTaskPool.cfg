CONSTANTS
    MaxType = 2
    MaxTask = 4
SPECIFICATION FairSpec
INVARIANT CallbacksOfTasks
PROPERTY TasksAnswered
CHECK_DEADLOCK FALSE
