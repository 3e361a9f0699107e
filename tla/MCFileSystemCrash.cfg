SPECIFICATION CrashSpec
CONSTANTS
    FS_MAX_INODES = 6
    FS_MAX_BLOCKS = 6
    FS_INODE_DIRECT_BLOCKS = 2
    FS_MAX_FILE_SIZE = 2
    FS_MAX_DIR_ENTRIES = 6
    SECTOR_DIR_ENTRIES = 5
    WORD = 16
    Name = {"bin", "home", "a", "b", "d", "e"}
    Data = {"x", "y"}
    InstallDirs <- MCInstallDirs
    Requests <- MCRequests
    Paths <- MCPaths
    MaxBoots = 2
    MaxCrashes = 2
INVARIANTS
    CrashSparesOtherPaths
    CrashOldNewOrNothing
    CrashedDeleteOnlyLeaks
    CrashedInstallIsPrefix
