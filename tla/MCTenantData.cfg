CONSTANTS
    MaxStreams = 2
    MaxIngests = 2
    MaxErasures = 2
    MaxLookups = 1
    ErasureKinds <- AsksOf
    RequestIds = {1, 2}
    VectorBackend = TRUE
    Retained = {"prompts", "corpus", "content"}
    MaxExemplars = 2
    MaxScan = 3
    MaxEntries = 5
    MaxDataFaults = 1
SPECIFICATION Spec

    
    
PROPERTY CatchesUp
CHECK_DEADLOCK FALSE
