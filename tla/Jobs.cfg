SPECIFICATION FairSpec
CONSTANTS
    r1 = r1
    r2 = r2
    f1 = f1
    f2 = f2
    Run = {r1, r2}
    File = {f1, f2}
    Hour = 1
    LockMaxAge = 1
    Aged = 2
    MaxEvents = 2
    None = None
    Backup <- Backups
CHECK_DEADLOCK FALSE
INVARIANTS LeaseExcludes
PROPERTIES SwapIsClean QueuedJobStarts
