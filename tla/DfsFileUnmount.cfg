\* As DfsFileCareful.cfg, but the unmount finds a file that is not SYNCED.
CONSTANTS
    NULL = NULL
    BlockSize = 2
    MaxCacheBlock = 3
    CipherBlock = 2
    MaxGap = 0
    DownloadResults = {"ok"}
    UploadResults = {"ok"}
    TruncateSizes <- Never
    SyncsFirst = FALSE
    HeapContents = {"zeroed"}
SPECIFICATION Spec
CHECK_DEADLOCK FALSE
PROPERTY
    UnmountCommits
