CONSTANTS
    p1 = p1
    p2 = p2
    p3 = p3
    Pages = {p1, p2, p3}
    Texts = {t1, t2}
    FirstText = t1
    Refs = {r1}
    Answers <- AnswerLists
    Search = Search
    None = None
    MaxQueue = 2
    Delay <- Minutes
    Hour = 1
    MaxTime = 2
    MaxFaults = 1
    MaxChanges = 1
SPECIFICATION FairSpec
INVARIANTS CheckedIsPublished ConflictNotHidden
PROPERTIES AttemptsSpaced EveryPageTried
