SPECIFICATION FairSpec
CONSTANTS
    MaxJobs = 1
    MaxId = 2
    h1 = h1
    h2 = h2
    h3 = h3
    Hashes = {h1, h2}
    Fresh <- MCFresh
    NoHash = NoHash
    Sources = {s1}
    Configured = {s1}
    Targets = {"link_hash"}
    Runs = {r1}
    NoRun = NoRun
    BatchSize = 1
PROPERTY ReclaimedJobResumes
