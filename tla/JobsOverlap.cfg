\* A run that is not over when the next tick of its process comes.
CONSTANTS
    old = old  new = new
    oldtick = oldtick  newtick = newtick  slowtick = slowtick  cron = cron
    Servers = {old, new}
    Runners = {oldtick, slowtick, newtick}
    Home <- MCHome
    Crons = {}
    Kinds = {TRUE}
    Nobody = Nobody  Gone = Gone
    Ttl = 4
    MaxRun = 2  MaxDelay = 2  MaxCrashes = 0
SPECIFICATION Spec
INVARIANTS OneRunner
CHECK_DEADLOCK FALSE
