\* Storages that answer, a file that only grows and is synced before an unmount;
\* the process may die at any time, of garbage in cache_block or not.
CONSTANTS
    NULL = NULL
    BlockSize = 2
    MaxCacheBlock = 3
    CipherBlock = 2
    MaxGap = 0
    DownloadResults = {"ok"}
    UploadResults = {"ok", "error", "throw"}
    TruncateSizes <- Never
    SyncsFirst = TRUE
    HeapContents = {"zeroed", "dirty"}
SPECIFICATION Spec
CHECK_DEADLOCK FALSE
INVARIANTS
    TypeOK
    RemountFindsBlocks
    DownloadIsWhole
PROPERTIES
    WritesKeepBlock
