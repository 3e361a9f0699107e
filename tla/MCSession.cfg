SPECIFICATION SessionSpec
CONSTANTS
    FS_MAX_INODES = 6
    FS_MAX_BLOCKS = 6
    FS_INODE_DIRECT_BLOCKS = 1
    FS_MAX_FILE_SIZE = 1
    FS_MAX_DIR_ENTRIES = 5
    SECTOR_DIR_ENTRIES = 5
    WORD = 16
    Name = {"bin", "home", "u", "a", "d"}
    Data = {"x"}
    InstallDirs <- MCInstallDirs
    Requests = {}
    Paths <- MCPaths
    MaxBoots = 3
    username = "u"
    Logins = {"u", "a"}
    Passwords <- MCPasswords
    MAX_LINE = 3
    HASH_WORD = 16
    CdArguments <- MCCdArguments
    Commands <- MCCommands
    MaxPath = 4
INVARIANTS
    SessionTypeOK
    ChosenPasswordOpens
    CurrentDirExists
PROPERTIES
    SessionStartsAtHome
    CurrentDirStays
    DotDotIsParent
