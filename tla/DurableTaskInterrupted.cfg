\* A server and a command line; a dead process's pid never comes back.
SPECIFICATION Spec
CONSTANTS
    server = server
    cli = cli
    cli2 = cli2
    Tasks = {t1}
    Pids = {server, cli}
    Servers = {server}
    Ops = {}
    MaxSlices = 2
    NoPid = NoPid
    ReusePids = FALSE
INVARIANT InterruptedIsResumable
CHECK_DEADLOCK FALSE
