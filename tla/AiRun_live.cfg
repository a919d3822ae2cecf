SPECIFICATION FairSpec
CONSTANTS
    Articles = {1, 2}
    Versions = {v1}
    Runs = {r1, r2}
    NoRun = NoRun
    MaxAttempts = 2
    BatchSize = 1
    Scores = {1, 2}
    MinScore = 2
    Backfill = FALSE
    ReadCommitted = FALSE
INVARIANTS ArticleIsDerived
PROPERTIES EveryTaskSettles EveryArticleGetsATask
