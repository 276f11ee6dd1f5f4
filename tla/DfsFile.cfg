\* Streams break off, uploads fail or end the process, writes leave holes, the
\* process dies and cache_block is garbage after it.
CONSTANTS
    NULL = NULL
    BlockSize = 2
    MaxCacheBlock = 2
    CipherBlock = 4
    MaxGap = 1
    DownloadResults = {"ok", "partial"}
    UploadResults = {"ok", "error", "ruin"}
    TruncateSizes <- ToInsideBlock
    SyncsFirst = FALSE
    HeapContents = {"zeroed", "dirty"}
SPECIFICATION Spec
CHECK_DEADLOCK FALSE
INVARIANTS
    ClearIsSafe
    CacheInv
PROPERTIES
    OnlyWritesTear
    UnmountStoresUpToHole
