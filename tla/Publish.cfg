SPECIFICATION Spec
CONSTANTS
    Categories = {c1}
    Stories = {s1}
    Editions = {e1, e2}
    Runs = {r1, r2}
    NoRun = NoRun
    MaxAttempts = 4
    AiOff = {TRUE, FALSE}
    Backfill = TRUE
INVARIANTS PublishedOnce PublishedWasDelivered
PROPERTIES AdvancedByOwner ImplementsDelivery
SYMMETRY Symmetry
CONSTRAINT Bounds
