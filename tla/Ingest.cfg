SPECIFICATION Spec
CONSTANTS
    Procs = {p1, p2}
    c1 = c1
    c2 = c2
    s1 = s1
    u1 = u1
    u2 = u2
    e1 = e1
    e2 = e2
    e3 = e3
    e4 = e4
    l1 = l1
    l2 = l2
    Configs = {c1, c2}
    NoConfig = NoConfig
    Sources = {s1}
    Urls = {u1, u2}
    UrlOf <- MCUrlOf
    NoUrl = NoUrl
    NameOf <- MCNameOf
    LastVersion <- MCLast
    Shown <- MCShown
    LinkOf <- MCLinkOf
    BadLink = BadLink
    NoCursor = NoCursor
    ConcurrentFeeds = 1
SYMMETRY AnyProc
CONSTRAINT AloneOnSqlite OneMistake
INVARIANTS TypeOK CursorAfterEntries OneEntryPerLink
PROPERTIES ImplementsActiveVersion
