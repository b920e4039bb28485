SPECIFICATION FairSpec
CONSTANTS
    t1 = t1
    t2 = t2
    Transfers = {t1, t2}
    Settings <- Together
    MaxQueue = 1
PROPERTY DownloadEnds
CHECK_DEADLOCK FALSE
