SPECIFICATION Spec
CONSTANTS
    Procs = {p1, p2}
    NoProc = NoProc
    Configs = {c1}
    Articles = {1, 2}
    k1 = k1
    k2 = k2
    Categories <- MCCategories
    CategoryOf <- MCCategoryOf
    Budgets = {1, 4}
    Concurrency = 2
    MaxAttempts = 2
    RawPolicy = "on_failure"
CONSTRAINT SmallOverlap
SYMMETRY AnyProc
INVARIANTS TypeOK CallsAreCharged CallsWithinBudget FirstWindowForAll
PROPERTIES ImplementsLeaseQueue
