SPECIFICATION FairSpec
CONSTANTS
    c1 = c1  c2 = c2  here = here  there = there
    Calls = {c1}
    Pages = {here, there}
    NoPage = NoPage
    Other = Other
    MaxDownloads = 2
    MaxPerClick = 1
CHECK_DEADLOCK FALSE
INVARIANT
    WrongFileHasReason
PROPERTIES DownloadsReturn
