CONSTANTS
    c1 = c1
    c2 = c2
    c3 = c3
    WritesFallback = TRUE
    Conn = {c1, c2, c3}
    MetricsEnabled = TRUE
    StartCancellable = TRUE
SPECIFICATION FairSpec
INVARIANTS TypeOK StopNilMeansDrained
PROPERTIES NoAddAfterCleanShutdown InterruptStops
