\* A restarted process gets the pid of the one that died.
SPECIFICATION Spec
CONSTANTS
    server = server
    cli = cli
    cli2 = cli2
    Tasks = {t1}
    Pids = {server, cli}
    Servers = {server}
    Ops = {}
    MaxSlices = 2
    NoPid = NoPid
    ReusePids = TRUE
PROPERTY RestartSafe
CHECK_DEADLOCK FALSE
