SPECIFICATION ScenarioSpec
CONSTANTS
    Requests <- FiveTasks
    MaxActive = 2
    MaxQueueDepth = 2

    
PROPERTIES
    EveryTaskEnds
CHECK_DEADLOCK FALSE
