\* SameSecondWrites = FALSE: the client never writes a block twice within
\* one second; MCCowUploader_samesecond.cfg drops this assumption.
CONSTANTS
    NBlocks = 2
    MaxBg = 1
    MaxFg = 2
    Retries = 1
    MergeRetries = 0
    Delay = 0
    MaxTime = 3
    MaxWrites = 3
    MaxFailures = 1
    SameSecondWrites = FALSE
    MergeAfterUpload = TRUE
    HandleBound = 4
SPECIFICATION Spec
INVARIANTS TypeOK CleanMeansUploaded
PROPERTIES DrainTerminates
