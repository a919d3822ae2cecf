SPECIFICATION Spec
CONSTANTS
    Articles = {1}
    Versions = {v1, v2}
    Runs = {r1, r2}
    NoRun = NoRun
    MaxAttempts = 2
    BatchSize = 2
    Scores = {1, 2}
    MinScore = 2
    Backfill = TRUE
    ReadCommitted = TRUE
INVARIANTS OpenReleaseHoldsItsRow ArticleStateJustified
PROPERTIES ArticleMovesForward ImplementsLeaseQueue
