SPECIFICATION TrajectorySpec
CONSTANTS
    app = app
    page = page
    tmp = tmp
    pytest = pytest
    start = start
    Files = {app, page}
    Scratch = {tmp}
    Targets = {app, page}
    Names = {app, page, tmp}
    NameOf <- OwnNames
    CommandLines = {pytest, start}
    CheckRuns = {pytest}
    Mentions <- StartedFiles
    Runs <- StartedFiles
    NoPath = NoPath
    NoCommand = NoCommand
    MaxOperations = 1
    MaxReminders = 1
INVARIANTS
    TrajectoryTypeOK
    AssuranceHasGrounds
    FailureIsShown
    RemindedOnce
CHECK_DEADLOCK FALSE
