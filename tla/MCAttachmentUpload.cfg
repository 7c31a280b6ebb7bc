SPECIFICATION UploadSpec
CONSTANTS
    f1 = f1
    f2 = f2
    p1 = p1
    ann = ann
    c1 = c1
    Files <- MCFiles
    Owner <- MCOwner
    Passes <- MCPasses
    MaxFilesPerOwner = 1
    ReapLimit = 1
    MaxCrashes = 1
    Calls <- MCCalls
    Requester <- MCRequester
    Refs <- MCRefs
INVARIANTS
    ResultsAreTrue
    AnswerIsTrue
    SuccessIsFinal
PROPERTIES
    CallIsAnswered
    ConsumedIsPublished
