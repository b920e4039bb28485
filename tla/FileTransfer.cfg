SPECIFICATION FairSpec
CONSTANTS
    t1 = t1
    t2 = t2
    Transfers = {t1, t2}
    Settings <- Separately
    MaxQueue = 1
INVARIANTS TypeOK CalledBackOnce SinkGetsFile BufferBounded NoPauseForgotten
PROPERTY DownloadEnds
