SPECIFICATION FairSpec
CONSTANTS
    Entries = {e1, e2}
    Hashes = {h1}
    Runs = {r1, r2}
    NoRun = NoRun
    NoEntry = NoEntry
    NoHash = NoHash
    MaxAttempts = 2
    BatchSize = 1
    Backfill = TRUE
INVARIANTS StoredEntryIsOrigin
PROPERTIES EveryEntrySettles ImplementsLeaseQueue
