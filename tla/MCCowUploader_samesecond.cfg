\* Writes within one second share a timeChanged value (time(NULL)); four
\* writes let one block be written again after the upload read it.
CONSTANTS
    NBlocks = 2
    MaxBg = 1
    MaxFg = 2
    Retries = 1
    MergeRetries = 0
    Delay = 0
    MaxTime = 3
    MaxWrites = 4
    MaxFailures = 0
    SameSecondWrites = TRUE
    MergeAfterUpload = TRUE
    HandleBound = 4
SPECIFICATION Spec
INVARIANT CleanMeansUploaded
