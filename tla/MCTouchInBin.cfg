SPECIFICATION Spec
CONSTANTS
    FS_MAX_INODES = 8
    FS_MAX_BLOCKS = 8
    FS_INODE_DIRECT_BLOCKS = 2
    FS_MAX_FILE_SIZE = 3
    FS_MAX_DIR_ENTRIES = 5
    SECTOR_DIR_ENTRIES = 4
    WORD = 16
    Name = {"bin", "home", "a", "b", "c"}
    Data = {"x", "y"}
    InstallDirs <- MCInstallDirs
    Requests <- TouchInBin
    MaxBoots = 3
INVARIANT TouchCreatesFile
