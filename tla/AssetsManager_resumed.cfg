CONSTANTS
    x = x
    z = z
    Asset <- MCAsset
    Content <- MCContent
    MaxVersion = 3
    Compressed = {z}
    MaxConcurrent = 1
    MaxDepth = 2
    Null = Null
    NoFile = NoFile
    Garbage = Garbage
    NoAsset = NoAsset
SPECIFICATION Spec
INVARIANT
    CorrectlyDownloaded
CHECK_DEADLOCK FALSE
