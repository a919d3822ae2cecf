SPECIFICATION Spec
CONSTANTS
    Reports = {k1, k2}
    Others = {readme}
    Edits = {e1}
    Procs = {p1, p2}
    NoProc = NoProc
    Outsider = Outsider
    MaxAttempts = 2
INVARIANTS TypeOK PublishedIsOnBranch
PROPERTIES CommitIsOneWholeBatch OverwritesOnlyWhatItRead
SYMMETRY Symmetry
CONSTRAINT FewCommits
CHECK_DEADLOCK FALSE
