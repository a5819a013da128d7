CONSTANTS
    None = None
    Worker = {w1, w2}
    Script = {script}
    Table = {"saved", "new"}
    AddedColumns <- Additions
    Backfilled <- Refs
    DefaultSources = {"grants_gov", "ngobox"}
    OldTables = {"saved"}
    OldSources = {"ngobox"}
    Environments <- Deployments
    MaxCrashes = 1
    MaxRefreshes = 1
SPECIFICATION Spec
CHECK_DEADLOCK FALSE
INVARIANTS ReadyMeansMigrated
PROPERTIES RestartSafe Serves
