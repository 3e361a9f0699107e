SPECIFICATION Spec
CONSTANTS
    FS_MAX_INODES = 6
    FS_MAX_BLOCKS = 6
    FS_INODE_DIRECT_BLOCKS = 2
    FS_MAX_FILE_SIZE = 3
    FS_MAX_DIR_ENTRIES = 5
    SECTOR_DIR_ENTRIES = 4
    WORD = 16
    Name = {"bin", "home", "a", "b"}
    Data = {"x", "y"}
    InstallDirs <- MCInstallDirs
    Requests <- MCRequests
    MaxBoots = 3
INVARIANTS
    TypeOK
    BlockOwnership
    NoDanglingEntries
    SyncedAtRest
    OneDirtyInode
    CountersExact
PROPERTIES
    FileContentStable
    CallReturns
