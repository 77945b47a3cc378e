\* Inputs of up to two messages and any end, a buffer that holds one and a
\* half; one symbol named twice; two runs over the same directory.
SPECIFICATION ToolSpec
CONSTANTS
    MaxMessages = 2
    MaxLen = 2
    Buf = 5
    Files <- AllFiles
    Symbols <- TwoNames
    MaxCount = 2
    MaxRuns = 2
    HeaderUnits = 2
    RecordUnits = 1
INVARIANTS InOrder VerdictRight AcceptedIsComplete ExitMeansWritten
PROPERTIES ReadBeforeWrite Ends
CHECK_DEADLOCK FALSE
