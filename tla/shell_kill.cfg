CONSTANTS
    Console = {c1, c2}
    TaskName = {x, y}
    MaxTasks = 2
    Nothing = Nothing
SPECIFICATION CmdQueueSpec
INVARIANTS KillAllKillsAll
