CONSTANTS
    c1 = c1
    c2 = c2
    WritesFallback = TRUE
    Conn = {c1, c2}
    MetricsEnabled = FALSE
    StartCancellable = FALSE
SPECIFICATION Spec
INVARIANTS CompletedMeansDrained
