SPECIFICATION Spec
CONSTANTS
    MaxJobs = 2
    MaxId = 2
    h1 = h1
    h2 = h2
    h3 = h3
    Hashes = {h1, h2, h3}
    Fresh <- MCFresh
    NoHash = NoHash
    Sources = {s1, s2}
    Configured = {s1}
    Targets = {"link_hash", "content_hash", "categories"}
    Runs = {r1, r2}
    NoRun = NoRun
    BatchSize = 1
CONSTRAINT OneTable
SYMMETRY AnyRun
INVARIANTS TypeOK JobCoherent OneCanonicalPerLink DryRunForetells
PROPERTIES SwitchedWhenDone EndedForGood ImplementsActiveVersion
