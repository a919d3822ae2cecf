SPECIFICATION Spec
CONSTANTS
    Categories = {c1}
    Stories = {s1}
    Editions = {e1}
    Runs = {r1, r2}
    NoRun = NoRun
    MaxAttempts = 3
    AiOff = {TRUE}
    Backfill = FALSE
PROPERTIES ExhaustedOnlyByReclaim
