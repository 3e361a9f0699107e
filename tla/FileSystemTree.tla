---------------------------- MODULE FileSystemTree ----------------------------
(***************************************************************************)
(* FileSystem seen through its own lookups (find_inode_by_path and         *)
(* fs_read_file), and the claim that it then implements FileTree.          *)
(***************************************************************************)
EXTENDS FileSystem

CONSTANT Paths              \* the paths looked at

ASSUME PathsAssumption == Paths \subseteq Path /\ << >> \in Paths

\* What the shell sees at a path.
NodeAt(path) ==
    IF fs_dir_exists(path)
    THEN [type |-> "DIR", content |-> << >>]
    ELSE [type |-> "FILE", content |-> fs_read_file(path)]

Tree == [path \in {p \in Paths : fs_dir_exists(p) \/ fs_file_exists(p)}
            |-> NodeAt(path)]

Installing == boots = 1 /\ pc # "off"

Status ==
    CASE Installing -> "new"
      [] pc = "off" \/ (pc = "boot" /\ boots > 1) -> "off"
      [] pc = "idle" -> "ready"
      [] pc = "return" -> result
      [] pc \in {"file_inodes", "file_bitmap", "file_superblock"} -> "changed"
      [] pc \in {"delete_inodes", "delete_bitmap"} /\ task.op = "delete_file"
             -> "changed"
      [] OTHER -> "busy"

FT == INSTANCE FileTree WITH
          tree <- IF Installing THEN << >> ELSE Tree,
          status <- Status,
          call <- IF Installing THEN NoTask ELSE task

(***************************************************************************)
(* The file system implements the tree: every call changes what the shell  *)
(* sees at the paths it is about and nowhere else, in the order the code   *)
(* promises, an answer of 0 is true, and a reboot changes nothing.  The    *)
(* runs bound Requests to what the implementation carries (README).        *)
(***************************************************************************)
ImplementsFileTree == FT!Spec

(***************************************************************************)
(* What the theorems about paths ask of the calls: that no path has a "."  *)
(* or ".." in it, and that no path is used for a file by one call and for  *)
(* a directory by another, or on the way to something else.                *)
(***************************************************************************)
NamedPath == Seq(Name)
Fronts(path) == {Prefix(path, k) : k \in 0 .. Len(path)}
Calls(op) == {request \in Requests : request.op = op /\ request.path # << >>}

FilePaths == {request.path : request \in Calls("create_file")}
DirPaths ==
    {<< >>}
        \cup (UNION {Fronts(InstallDirs[k]) : k \in DOMAIN InstallDirs})
        \cup (UNION {Fronts(request.path) : request \in Calls("create_dir")})
        \cup (UNION {Fronts(Parent(request.path)) : request \in Calls("create_file")})

PlainCalls ==
    /\ Paths \subseteq NamedPath
    /\ \A k \in DOMAIN InstallDirs : InstallDirs[k] \in NamedPath
    /\ \A request \in Requests : request.path \in NamedPath
    /\ FilePaths \cap DirPaths = {}

\* ... and for what files contain: that the content fits the direct blocks, and
\* that block 0, which no inode can hold, goes to the first installed directory.
ShortFiles == \A request \in Requests : Len(request.content) <= FS_INODE_DIRECT_BLOCKS
ZeroGoesFirst == InstallDirs # << >> /\ FS_MAX_INODES > 1

\* ... of the directories that are installed: that each comes once, after those
\* on the way to it, not below the first (which has no block for entries), and
\* finds room.
PlainInstall ==
    /\ InstallDirs # << >>
    /\ \A k \in DOMAIN InstallDirs :
           /\ InstallDirs[k] \in Paths
           /\ Fronts(InstallDirs[k]) \subseteq {<< >>} \cup {InstallDirs[j] : j \in 1 .. k}
           /\ Parent(InstallDirs[k]) # InstallDirs[1]
           /\ \A j \in DOMAIN InstallDirs : InstallDirs[j] = InstallDirs[k] => j = k
    /\ Len(InstallDirs) < FS_MAX_INODES /\ Len(InstallDirs) < FS_MAX_BLOCKS
    /\ Len(InstallDirs) + 2 <= SECTOR_DIR_ENTRIES

\* ... and that there is room: nothing goes below the first installed directory,
\* and, where a sector does not hold all entries of a directory, what the calls
\* may put into one fits the sector, with "." and "..".
Below(path) == {p \in (FilePaths \cup DirPaths) \ {<< >>} : Parent(p) = path}
RoomForCalls ==
    /\ Below(InstallDirs[1]) = {}
    /\ \/ SECTOR_DIR_ENTRIES = FS_MAX_DIR_ENTRIES
       \/ \A path \in DirPaths :
              /\ IsFiniteSet(Below(path))
              /\ Cardinality(Below(path)) + 2 <= SECTOR_DIR_ENTRIES

\* ... and that the paths looked at are all those the calls name or pass through
\* (fs_create_dir("/") answers -1 though the root is there, so no call asks it).
CallsSeen ==
    \A request \in Requests :
        /\ Fronts(request.path) \subseteq Paths
        /\ request.op = "create_dir" => request.path # << >>

AtRest == pc \in {"idle", "return", "off"}

(***************************************************************************)
(* At rest no inode is lost: whatever allocate_inode gave out and is still *)
(* in use has an entry in a directory, also when the disk or the table     *)
(* filled up in the middle of fs_create_file or fs_create_dir.             *)
(***************************************************************************)
NoOrphans ==
    AtRest => \A i \in Live \ {Root} : \E e \in Links(i) : e[2] > 1

=============================================================================
