------------------------------ MODULE FileSystem ------------------------------
(***************************************************************************)
(* The EphemeralOS file system (src/fs/filesystem.c) over its ATA disk     *)
(* (src/drivers/disk.c), from installation through any sequence of calls   *)
(* and reboots.                                                            *)
(*                                                                         *)
(* The kernel is single-threaded, so a call runs to its end before the     *)
(* next one starts; what makes it hard is that a call is a SEQUENCE of     *)
(* disk writes over two copies of the same state: the superblock, inode    *)
(* table and block bitmap in RAM, and their images on disk that a reboot   *)
(* reloads.  Every action below ends with at most one of the code's disk   *)
(* writes, so a state between two actions is a state between two writes.   *)
(*                                                                         *)
(* Abstractions.  A path is the sequence of its components (normalize_path *)
(* has run; a component is shorter than FS_MAX_FILENAME).  A file's size   *)
(* is counted in blocks of FS_BLOCK_SIZE bytes and its content is one      *)
(* value per block.  An inode's parent_inode is left out: nothing reads    *)
(* it.  The disk answers (no ATA timeout).                                 *)
(***************************************************************************)
EXTENDS Integers, Sequences, FiniteSets

CONSTANTS
    FS_MAX_INODES,          \* inodes in the table (200)
    FS_MAX_BLOCKS,          \* data blocks on the disk (512)
    FS_INODE_DIRECT_BLOCKS, \* block numbers in an inode (12)
    FS_MAX_FILE_SIZE,       \* largest accepted size, in blocks (16384 / 512)
    FS_MAX_DIR_ENTRIES,     \* entries of a directory in RAM (15)
    SECTOR_DIR_ENTRIES,     \* whole 36-byte entries in a 512-byte sector (14)
    WORD,                   \* 2^32: the counters are uint32_t
    Name,                   \* names of files and directories
    Data,                   \* what a block of a file may hold
    InstallDirs,            \* the directories fs_install creates, in order
    Requests,               \* the calls the shell may make
    MaxBoots                \* bound: how often the machine is switched on

Dot == "."
DotDot == ".."
NoName == ""
NoData == "zero"
Component == Name \cup {Dot, DotDot}
Path == Seq(Component)

Request == [op      : {"create_dir", "create_file", "delete_file"},
            path    : Path,
            content : Seq(Data)]

ASSUME SizesAssumption ==
    /\ FS_MAX_INODES \in Nat \ {0}
    /\ FS_MAX_BLOCKS \in Nat /\ FS_MAX_BLOCKS > 1
    /\ FS_INODE_DIRECT_BLOCKS \in Nat \ {0}
    /\ FS_MAX_FILE_SIZE \in Nat
    /\ FS_MAX_DIR_ENTRIES \in Nat
    /\ SECTOR_DIR_ENTRIES \in Nat
    /\ 2 <= SECTOR_DIR_ENTRIES /\ SECTOR_DIR_ENTRIES <= FS_MAX_DIR_ENTRIES
    /\ WORD \in Nat \ {0}
    /\ FS_MAX_INODES < WORD /\ FS_MAX_BLOCKS < WORD
    /\ MaxBoots \in Nat /\ MaxBoots > 1

ASSUME NamesAssumption ==
    /\ {Dot, DotDot, NoName} \cap Name = {}
    /\ NoData \notin Data

ASSUME CallsAssumption ==
    /\ InstallDirs \in Seq(Path)
    /\ \A k \in 1 .. Len(InstallDirs) : InstallDirs[k] # << >>
    /\ Requests \subseteq Request

-----------------------------------------------------------------------------
(* Inodes, directory blocks and data blocks                                *)

Inode == 0 .. FS_MAX_INODES - 1
Block == 0 .. FS_MAX_BLOCKS - 1
DirectBlock == 0 .. FS_INODE_DIRECT_BLOCKS - 1
Slot == 0 .. FS_MAX_DIR_ENTRIES - 1
StoredSlot == 0 .. SECTOR_DIR_ENTRIES - 1

Root == 0                   \* superblock.root_inode
NoBlock == 0                \* block number 0 means "no block"
NoInode == FS_MAX_INODES    \* 0xFFFFFFFF
NoFreeBlock == FS_MAX_BLOCKS

InodeRecord == [type   : {"FREE", "FILE", "DIR"},
                size   : 0 .. FS_MAX_FILE_SIZE,
                blocks : [DirectBlock -> Block]]

FreeInode == [type |-> "FREE", size |-> 0,
              blocks |-> [j \in DirectBlock |-> NoBlock]]

DirEntry == [in_use : BOOLEAN, name : Component \cup {NoName}, inode : Inode]
FreeEntry == [in_use |-> FALSE, name |-> NoName, inode |-> 0]

\* A sector of the data area, read as a directory or as a chunk of a file.
Sector == [dir : [StoredSlot -> DirEntry], chunk : Data \cup {NoData}]
ZeroSector == [dir |-> [s \in StoredSlot |-> FreeEntry], chunk |-> NoData]

Superblock == [installed   : {0, 1},
               free_inodes : 0 .. WORD - 1,
               free_blocks : 0 .. WORD - 1]
ZeroSuperblock == [installed |-> 0, free_inodes |-> 0, free_blocks |-> 0]

(***************************************************************************)
(* VARIABLES: the RAM copies, their images on disk (d_...), and the        *)
(* control state of the kernel.                                            *)
(***************************************************************************)
VARIABLES
    superblock, inode_table, block_bitmap,
    d_superblock, d_inode_table, d_block_bitmap, d_data,
    pc,         \* where the running call is
    task,       \* the call: its operation, path and content
    frame,      \* the locals that live across a disk write
    result,     \* what the call returns: "ok" (0) or "error" (-1)
    boots       \* how often the machine was switched on

ram == <<superblock, inode_table, block_bitmap>>
metadata == <<d_superblock, d_inode_table, d_block_bitmap>>
disk == <<metadata, d_data>>
control == <<pc, task, frame, result, boots>>
vars == <<ram, disk, control>>

NoTask == [op |-> "none", path |-> << >>, content |-> << >>]
NoFrame == [dir |-> << >>, depth |-> 0, parent |-> Root, inode |-> Root, i |-> 0]
-----------------------------------------------------------------------------
(* Helpers of the code                                                     *)

First(S) == CHOOSE m \in S : \A n \in S : m <= n

\* uint32_t arithmetic of the two counters in the superblock
PlusOnce(counter, n) == (counter + 1) % WORD        \* mutant: whatever n is
Plus(counter, n) == (counter + n) % WORD
Minus(counter, n) == (counter - n) % WORD

FreeInodes == {i \in Inode : inode_table[i].type = "FREE"}
\* Mutant: the test reads the neighbour's bit.
FreeBlocksOffByOne == {b \in Block : b + 1 \notin block_bitmap}
FreeBlocks == Block \ block_bitmap
allocate_inode == IF FreeInodes = {} THEN NoInode ELSE First(FreeInodes)
allocate_block == IF FreeBlocks = {} THEN NoFreeBlock ELSE First(FreeBlocks)

read_inode_block(b) == IF b = NoBlock THEN ZeroSector ELSE d_data[b]
write_inode_block(b, sector) ==
    d_data' = IF b = NoBlock THEN d_data ELSE [d_data EXCEPT ![b] = sector]

\* What a 512-byte write keeps of a directory of FS_MAX_DIR_ENTRIES entries.
DirSector(entries) ==
    [dir |-> [s \in StoredSlot |-> entries[s]], chunk |-> NoData]
ChunkSector(value) == [ZeroSector EXCEPT !.chunk = value]

\* The directory in RAM after a read: the entries past the sector are zero.
dir_entries(i) ==
    LET stored == read_inode_block(inode_table[i].blocks[0]).dir
    IN  [s \in Slot |-> IF s \in StoredSlot THEN stored[s] ELSE FreeEntry]

NewDirectory(self, parent) ==
    [s \in Slot |->
        CASE s = 0 -> [in_use |-> TRUE, name |-> Dot, inode |-> self]
          [] s = 1 -> [in_use |-> TRUE, name |-> DotDot, inode |-> parent]
          [] OTHER -> FreeEntry]

IsDirectory(i) == i # NoInode /\ inode_table[i].type = "DIR"

\* One step of the path walk: the first entry of directory i called name.
dir_lookup[i \in Inode \cup {NoInode}] ==
    [name \in Component |->
        LET hits == {s \in Slot : dir_entries(i)[s].in_use
                                  /\ dir_entries(i)[s].name = name}
        IN  IF ~ IsDirectory(i) \/ inode_table[i].blocks[0] = NoBlock \/ hits = {}
            THEN NoInode
            ELSE dir_entries(i)[First(hits)].inode]

Parent(path) == SubSeq(path, 1, Len(path) - 1)
FileName(path) == path[Len(path)]

path_walk[path \in Path] ==
    IF path = << >> THEN Root
    ELSE dir_lookup[path_walk[Parent(path)]][FileName(path)]

find_inode_by_path(path) ==
    LET found == path_walk[path]
    IN  IF found \in Inode THEN found ELSE NoInode

Exists(path) == find_inode_by_path(path) # NoInode
Prefix(path, k) == SubSeq(path, 1, k)

\* mark_block_free of each block, as free_inode calls it; block 0 is skipped.
BlockIndices(i) == {j \in DirectBlock : inode_table[i].blocks[j] # NoBlock}
BlocksOf(i) == {inode_table[i].blocks[j] : j \in BlockIndices(i)}
\* Mutant: the loop over the direct blocks stops after the first.
free_inode_first_block(i) ==
    /\ inode_table' = [inode_table EXCEPT ![i] = FreeInode]
    /\ block_bitmap' = block_bitmap \ {inode_table[i].blocks[0]}
    /\ superblock' = [superblock EXCEPT !.free_inodes = Plus(@, 1)]
free_inode(i) ==
    /\ inode_table' = [inode_table EXCEPT ![i] = FreeInode]
    /\ block_bitmap' = block_bitmap \ BlocksOf(i)
    /\ superblock' = [superblock EXCEPT
           !.free_inodes = Plus(@, 1),
           !.free_blocks = Plus(@, Cardinality(BlockIndices(i)))]

sync_superblock == d_superblock' = superblock
\* Mutants: the loop over the sectors stops after the first; nothing is written.
sync_first_inodes == d_inode_table' = [d_inode_table EXCEPT ![Root] = inode_table[Root]]
sync_inode_table == d_inode_table' = inode_table
sync_no_bitmap == UNCHANGED d_block_bitmap
sync_block_bitmap == d_block_bitmap' = block_bitmap

\* The queries of the shell: they read the disk and change nothing.
fs_dir_exists(path) == IsDirectory(find_inode_by_path(path))

fs_file_exists_any(path) == Exists(path)        \* mutant: rm takes directories
fs_file_exists(path) ==
    LET i == find_inode_by_path(path)
    IN  i # NoInode /\ inode_table[i].type = "FILE"

Lesser(a, b) == IF a <= b THEN a ELSE b

\* The file's chunks: as many as its size says, those past the direct blocks
\* are left as the caller's buffer was (zero here).
fs_read_file(path) ==
    LET node == inode_table[find_inode_by_path(path)]
    IN  [k \in 1 .. node.size |->
            IF k <= FS_INODE_DIRECT_BLOCKS
            THEN read_inode_block(node.blocks[k - 1]).chunk
            ELSE NoData]
-----------------------------------------------------------------------------
(* Control                                                                 *)

Goto(label) == pc' = label

\* A call ends: the installer ignores what its fs_create_dir calls return.
Leave(r) ==
    /\ UNCHANGED <<task, frame, boots>>
    /\ IF task.op = "install"
       THEN Goto("install_dirs") /\ UNCHANGED result
       ELSE Goto("return") /\ result' = r

\* fs_create_dir(dir) is called by the shell, by fs_create_file for a missing
\* parent, and by fs_install.
CreateDirReturnsOk ==
    IF task.op = "create_file"
    THEN Goto("parent_made") /\ UNCHANGED <<task, frame, result, boots>>
    ELSE Leave("ok")

Init ==
    /\ superblock = ZeroSuperblock
    /\ inode_table = [i \in Inode |-> FreeInode]
    /\ block_bitmap = {}
    /\ d_superblock = ZeroSuperblock
    /\ d_inode_table = [i \in Inode |-> FreeInode]
    /\ d_block_bitmap = {}
    /\ d_data = [b \in Block |-> ZeroSector]
    /\ pc = "boot"
    /\ task = NoTask
    /\ frame = NoFrame
    /\ result = "ok"
    /\ boots = 1

-----------------------------------------------------------------------------
(* kernel_main and fs_install                                              *)

\* fs_check_installed, then fs_init; the shell is reached.
BootInstalled ==
    /\ pc = "boot"
    /\ d_superblock.installed = 1
    /\ superblock' = d_superblock
    /\ inode_table' = d_inode_table
    /\ block_bitmap' = d_block_bitmap
    /\ Goto("idle")
    /\ UNCHANGED <<disk, task, frame, result, boots>>

\* Not installed: installer_run calls fs_install, which lays out the root
\* directory in block 1.  Block 0 is not marked as used.
InstallRoot ==
    /\ pc = "boot"
    /\ d_superblock.installed # 1
    /\ superblock' = [installed   |-> 1,
                      free_inodes |-> Minus(FS_MAX_INODES, 1),
                      free_blocks |-> Minus(FS_MAX_BLOCKS, 1)]
    /\ inode_table' = [i \in Inode |->
           IF i = Root
           THEN [FreeInode EXCEPT !.type = "DIR", !.blocks[0] = 1]
           ELSE FreeInode]
    /\ block_bitmap' = {1}
    /\ write_inode_block(1, DirSector(NewDirectory(Root, Root)))
    /\ Goto("install_superblock")
    /\ task' = [NoTask EXCEPT !.op = "install"]
    /\ UNCHANGED <<metadata, frame, result, boots>>

InstallSyncSuperblock ==
    /\ pc = "install_superblock"
    /\ sync_superblock
    /\ Goto("install_inodes")
    /\ UNCHANGED <<ram, d_inode_table, d_block_bitmap, d_data,
                   task, frame, result, boots>>

InstallSyncInodes ==
    /\ pc = "install_inodes"
    /\ sync_inode_table
    /\ Goto("install_bitmap")
    /\ UNCHANGED <<ram, d_superblock, d_block_bitmap, d_data,
                   task, frame, result, boots>>

\* ... and the three tables are loaded back.
InstallSyncBitmap ==
    /\ pc = "install_bitmap"
    /\ sync_block_bitmap
    /\ superblock' = d_superblock
    /\ inode_table' = d_inode_table
    /\ block_bitmap' = d_block_bitmap'
    /\ Goto("install_dirs")
    /\ UNCHANGED <<d_superblock, d_inode_table, d_data,
                   task, frame, result, boots>>

\* fs_create_dir of the next directory of the list; frame.i counts them.
\* Mutant: the list is run through from its end.
InstallLastDir ==
    /\ pc = "install_dirs"
    /\ frame.i < Len(InstallDirs)
    /\ frame' = [frame EXCEPT !.dir = InstallDirs[Len(InstallDirs) - frame.i],
                             !.i = @ + 1]
    /\ Goto("create_dir")
    /\ UNCHANGED <<ram, disk, task, result, boots>>
InstallNextDir ==
    /\ pc = "install_dirs"
    /\ frame.i < Len(InstallDirs)
    /\ frame' = [frame EXCEPT !.dir = InstallDirs[frame.i + 1], !.i = @ + 1]
    /\ Goto("create_dir")
    /\ UNCHANGED <<ram, disk, task, result, boots>>

\* The last three syncs, of which only the superblock changes the disk (Settled
\* in FileSystemProofs), then the menu of kernel_main: the user reboots or
\* shuts down, and either way the machine stops.
InstallFinish ==
    /\ pc = "install_dirs"
    /\ frame.i >= Len(InstallDirs)
    /\ sync_superblock /\ sync_inode_table /\ sync_block_bitmap
    /\ Goto("off")
    /\ task' = NoTask
    /\ frame' = NoFrame
    /\ UNCHANGED <<ram, d_data, result, boots>>

\* The machine is switched on.  RAM is lost: nothing reads it before one of
\* the two actions that boot replaces it.
PowerOn ==
    /\ pc = "off"
    /\ boots' = boots + 1
    /\ Goto("boot")
    /\ UNCHANGED <<ram, disk, task, frame, result>>

\* The shell's reboot and shutdown commands, which sync nothing.
SwitchOff ==
    /\ pc = "idle"
    /\ boots < MaxBoots
    /\ Goto("off")
    /\ UNCHANGED <<ram, disk, task, frame, result, boots>>

-----------------------------------------------------------------------------
(* The shell calls the file system and gets an answer                      *)

Call(request) ==
    /\ pc = "idle"
    /\ task' = request
    /\ frame' = [NoFrame EXCEPT !.dir =
                     IF request.op = "create_dir" THEN request.path ELSE << >>]
    /\ Goto(request.op)
    /\ UNCHANGED <<ram, disk, result, boots>>

Return ==
    /\ pc = "return"
    /\ Goto("idle")
    /\ task' = NoTask
    /\ frame' = NoFrame
    /\ result' = "ok"
    /\ UNCHANGED <<ram, disk, boots>>

-----------------------------------------------------------------------------
(* fs_create_dir(frame.dir)                                                *)

\* It recurses to the longest prefix whose parent exists; frame.depth is the
\* length of the prefix being created.
CreateDirEnter ==
    /\ pc = "create_dir"
    /\ UNCHANGED <<ram, disk>>
    /\ LET missing == {k \in 1 .. Len(frame.dir) :
                          ~ Exists(Prefix(frame.dir, k))}
       IN  \/ /\ frame.dir = << >>
              /\ Leave("error")
           \/ /\ frame.dir # << >> /\ Exists(frame.dir)
              /\ CreateDirReturnsOk
           \/ /\ frame.dir # << >> /\ ~ Exists(frame.dir)
              /\ frame' = [frame EXCEPT !.depth = First(missing)]
              /\ Goto("dir_alloc")
              /\ UNCHANGED <<task, result, boots>>

\* The parent's inode, a new inode and a new block; the block is written.
CreateDirAlloc ==
    /\ pc = "dir_alloc"
    /\ LET parent == find_inode_by_path(Prefix(frame.dir, frame.depth - 1))
           inode == allocate_inode
           block == allocate_block
       IN  \/ /\ \/ ~ IsDirectory(parent)
                 \/ inode = NoInode
                 \/ block = NoFreeBlock
              /\ Leave("error")
              /\ UNCHANGED <<ram, disk>>
           \/ /\ IsDirectory(parent)
              /\ inode # NoInode
              /\ block # NoFreeBlock
              /\ inode_table' = [inode_table EXCEPT ![inode] =
                     [FreeInode EXCEPT !.type = "DIR", !.blocks[0] = block]]
              /\ block_bitmap' = block_bitmap \cup {block}
              /\ superblock' = [superblock EXCEPT
                     !.free_inodes = Minus(@, 1), !.free_blocks = Minus(@, 1)]
              /\ write_inode_block(block, DirSector(NewDirectory(inode, parent)))
              /\ frame' = [frame EXCEPT !.parent = parent, !.inode = inode]
              /\ Goto("dir_link")
              /\ UNCHANGED <<metadata, task, result, boots>>

\* The error path of a half-made file or directory.
KeepInode == Leave("error") /\ UNCHANGED <<ram, disk>>     \* mutant: no free_inode
GiveBack == free_inode(frame.inode) /\ Leave("error") /\ UNCHANGED disk

\* The entry <<name, frame.inode>> goes to the first free slot of frame.parent.
LinkEntry(name, next) ==
    LET entries == dir_entries(frame.parent)
        free == {s \in Slot : ~ entries[s].in_use}
        entry == [in_use |-> TRUE, name |-> name, inode |-> frame.inode]
    IN  \/ free = {} /\ GiveBack
        \/ /\ free # {}
           /\ write_inode_block(inode_table[frame.parent].blocks[0],
                  DirSector([entries EXCEPT ![First(free)] = entry]))
           /\ Goto(next)
           /\ UNCHANGED <<ram, metadata, task, frame, result, boots>>

CreateDirLink ==
    /\ pc = "dir_link"
    /\ LinkEntry(FileName(Prefix(frame.dir, frame.depth)), "dir_inodes")

CreateDirSkipInodes ==      \* mutant: fs_create_dir without sync_inode_table
    /\ pc = "dir_inodes" /\ Goto("dir_bitmap")
    /\ UNCHANGED <<ram, disk, task, frame, result, boots>>

CreateDirSyncInodes ==
    /\ pc = "dir_inodes"
    /\ sync_inode_table
    /\ Goto("dir_bitmap")
    /\ UNCHANGED <<ram, d_superblock, d_block_bitmap, d_data,
                   task, frame, result, boots>>

\* One level is made; the caller of this level of the recursion goes on.
CreateDirSyncBitmap ==
    /\ pc = "dir_bitmap"
    /\ sync_block_bitmap
    /\ UNCHANGED <<ram, d_superblock, d_inode_table, d_data>>
    /\ IF frame.depth < Len(frame.dir)
       THEN /\ frame' = [frame EXCEPT !.depth = @ + 1]
            /\ Goto("dir_alloc")
            /\ UNCHANGED <<task, result, boots>>
       ELSE CreateDirReturnsOk

-----------------------------------------------------------------------------
(* fs_create_file(task.path, task.content)                                 *)

AcceptableSizeUnchecked == task.path # << >>                \* mutant
\* (Names are shorter than FS_MAX_FILENAME, so that test of the code passes.)
Acceptable == Len(task.content) <= FS_MAX_FILE_SIZE /\ task.path # << >>

CreateFileEnter ==
    /\ pc = "create_file"
    /\ UNCHANGED <<ram, disk>>
    /\ \/ ~ Acceptable /\ Leave("error")
       \/ /\ Acceptable
          /\ ~ Exists(Parent(task.path))
          /\ frame' = [frame EXCEPT !.dir = Parent(task.path)]
          /\ Goto("create_dir")
          /\ UNCHANGED <<task, result, boots>>
       \/ /\ Acceptable
          /\ Exists(Parent(task.path))
          /\ Goto("parent_made")
          /\ UNCHANGED <<task, frame, result, boots>>

\* The parent is looked up (again); a file of that name is deleted first.
CreateFileParent ==
    /\ pc = "parent_made"
    /\ UNCHANGED <<ram, disk>>
    /\ LET parent == find_inode_by_path(Parent(task.path))
       IN  \/ /\ ~ IsDirectory(parent)
              /\ Leave("error")
           \/ /\ IsDirectory(parent)
              /\ frame' = [frame EXCEPT !.parent = parent]
              /\ Goto(IF Exists(task.path) THEN "delete_file" ELSE "file_alloc")
              /\ UNCHANGED <<task, result, boots>>

\* Mutant: the loop leaves out the last direct block.
BlocksNeededOffByOne == Lesser(Len(task.content), FS_INODE_DIRECT_BLOCKS - 1)
BlocksNeeded == Lesser(Len(task.content), FS_INODE_DIRECT_BLOCKS)

CreateFileAlloc ==
    /\ pc = "file_alloc"
    /\ UNCHANGED disk
    /\ \/ /\ allocate_inode = NoInode
          /\ Leave("error")
          /\ UNCHANGED ram
       \/ /\ allocate_inode # NoInode
          /\ inode_table' = [inode_table EXCEPT ![allocate_inode] =
                 [FreeInode EXCEPT !.type = "FILE", !.size = Len(task.content)]]
          /\ superblock' = [superblock EXCEPT !.free_inodes = Minus(@, 1)]
          /\ frame' = [frame EXCEPT !.inode = allocate_inode, !.i = 0]
          /\ Goto("file_data")
          /\ UNCHANGED <<block_bitmap, task, result, boots>>

\* One turn of the loop: the next block is allocated, recorded and written.
CreateFileData ==
    /\ pc = "file_data"
    /\ frame.i < BlocksNeeded
    /\ \/ allocate_block = NoFreeBlock /\ GiveBack
       \/ /\ allocate_block # NoFreeBlock
          /\ inode_table' = [inode_table EXCEPT
                 ![frame.inode].blocks[frame.i] = allocate_block]
          /\ block_bitmap' = block_bitmap \cup {allocate_block}
          /\ superblock' = [superblock EXCEPT !.free_blocks = Minus(@, 1)]
          /\ write_inode_block(allocate_block,
                               ChunkSector(task.content[frame.i + 1]))
          /\ frame' = [frame EXCEPT !.i = @ + 1]
          /\ UNCHANGED <<metadata, pc, task, result, boots>>

CreateFileLink ==
    /\ pc = "file_data"
    /\ frame.i >= BlocksNeeded
    /\ LinkEntry(FileName(task.path), "file_inodes")

CreateFileSyncInodes ==
    /\ pc = "file_inodes"
    /\ sync_inode_table
    /\ Goto("file_bitmap")
    /\ UNCHANGED <<ram, d_superblock, d_block_bitmap, d_data,
                   task, frame, result, boots>>

CreateFileSyncBitmap ==
    /\ pc = "file_bitmap"
    /\ sync_block_bitmap
    /\ Goto("file_superblock")
    /\ UNCHANGED <<ram, d_superblock, d_inode_table, d_data,
                   task, frame, result, boots>>

CreateFileSyncSuperblock ==
    /\ pc = "file_superblock"
    /\ sync_superblock
    /\ UNCHANGED <<ram, d_inode_table, d_block_bitmap, d_data>>
    /\ Leave("ok")

-----------------------------------------------------------------------------
(* fs_delete_file(task.path), also called by fs_create_file, which goes on *)
(* whatever it returns.                                                    *)

DeleteRetried(r) ==         \* mutant: the caller tries until the path is free
    IF task.op = "create_file"
    THEN Goto("parent_made") /\ UNCHANGED <<task, frame, result, boots>>
    ELSE Leave(r)
DeleteReturns(r) ==
    IF task.op = "create_file"
    THEN Goto("file_alloc") /\ UNCHANGED <<task, frame, result, boots>>
    ELSE Leave(r)

EntryKept(entries, inode) == entries                        \* mutant
WithoutEntry(entries, inode) ==
    LET hits == {s \in Slot : entries[s].in_use /\ entries[s].inode = inode}
    IN  IF hits = {} THEN entries
        ELSE [entries EXCEPT ![First(hits)] = FreeEntry]

\* The inode is freed, then the parent's directory is written without the
\* first entry that names this inode.
DeleteFileEnter ==
    /\ pc = "delete_file"
    /\ LET parent == find_inode_by_path(Parent(task.path))
           file == find_inode_by_path(task.path)
           left == WithoutEntry(dir_entries(parent), file)
       IN  \/ /\ parent = NoInode \/ ~ fs_file_exists(task.path)
              /\ DeleteReturns("error")
              /\ UNCHANGED <<ram, disk>>
           \/ /\ parent # NoInode /\ fs_file_exists(task.path)
              /\ free_inode(file)
              /\ write_inode_block(inode_table[parent].blocks[0], DirSector(left))
              /\ Goto("delete_inodes")
              /\ UNCHANGED <<metadata, task, frame, result, boots>>

\* Mutants: fs_delete_file without sync_inode_table; with sync_block_bitmap twice.
DeleteSkipInodes ==
    /\ pc = "delete_inodes" /\ Goto("delete_bitmap")
    /\ UNCHANGED <<ram, disk, task, frame, result, boots>>
DeleteBitmapTwice ==
    /\ pc = "delete_inodes" /\ Goto("delete_bitmap") /\ sync_block_bitmap
    /\ UNCHANGED <<ram, d_superblock, d_inode_table, d_data,
                   task, frame, result, boots>>

DeleteSyncInodes ==
    /\ pc = "delete_inodes"
    /\ sync_inode_table
    /\ Goto("delete_bitmap")
    /\ UNCHANGED <<ram, d_superblock, d_block_bitmap, d_data,
                   task, frame, result, boots>>

DeleteSyncBitmap ==
    /\ pc = "delete_bitmap"
    /\ sync_block_bitmap
    /\ UNCHANGED <<ram, d_superblock, d_inode_table, d_data>>
    /\ DeleteReturns("ok")

-----------------------------------------------------------------------------
Boot == BootInstalled \/ InstallRoot
Install == \/ InstallSyncSuperblock \/ InstallSyncInodes \/ InstallSyncBitmap
           \/ InstallNextDir \/ InstallFinish
CreateDir == \/ CreateDirEnter \/ CreateDirAlloc \/ CreateDirLink
             \/ CreateDirSyncInodes \/ CreateDirSyncBitmap
CreateFile == \/ CreateFileEnter \/ CreateFileParent \/ CreateFileAlloc
              \/ CreateFileData \/ CreateFileLink
              \/ CreateFileSyncInodes \/ CreateFileSyncBitmap
              \/ CreateFileSyncSuperblock
DeleteFile == DeleteFileEnter \/ DeleteSyncInodes \/ DeleteSyncBitmap

\* What the machine does by itself, once it is on.
Kernel == Boot \/ Install \/ CreateDir \/ CreateFile \/ DeleteFile \/ Return

\* What its user decides.
User == PowerOn \/ SwitchOff \/ \E request \in Requests : Call(request)

Next == Kernel \/ User

(***************************************************************************)
(* Fairness: the kernel is one instruction stream whose waits for the disk *)
(* are bounded loops, so a step it can take is taken.  The user may stop.  *)
(***************************************************************************)
Spec == Init /\ [][Next]_vars /\ WF_vars(Kernel)

-----------------------------------------------------------------------------
(* Properties                                                              *)

Label == {"boot", "off", "idle", "return",
          "install_superblock", "install_inodes", "install_bitmap",
          "install_dirs",
          "create_dir", "dir_alloc", "dir_link", "dir_inodes", "dir_bitmap",
          "create_file", "parent_made", "file_alloc", "file_data",
          "file_inodes", "file_bitmap", "file_superblock",
          "delete_file", "delete_inodes", "delete_bitmap"}

Task == Request \cup {NoTask, [NoTask EXCEPT !.op = "install"]}

Frame == [dir : Path, depth : Nat, parent : Inode, inode : Inode, i : Nat]

(***************************************************************************)
(* The type invariant: every inode and block number the code stores, in    *)
(* RAM or on disk, is inside its table.                                    *)
(***************************************************************************)
RamTypeOK ==
    /\ superblock \in Superblock
    /\ inode_table \in [Inode -> InodeRecord]
    /\ block_bitmap \in SUBSET Block

DiskTypeOK ==
    /\ d_superblock \in Superblock
    /\ d_inode_table \in [Inode -> InodeRecord]
    /\ d_block_bitmap \in SUBSET Block
    /\ d_data \in [Block -> Sector]

ControlTypeOK ==
    /\ pc \in Label
    /\ task \in Task
    /\ frame \in Frame
    /\ result \in {"ok", "error"}
    /\ boots \in Nat

TypeOK == RamTypeOK /\ DiskTypeOK /\ ControlTypeOK

Live == {i \in Inode : inode_table[i].type # "FREE"}

(***************************************************************************)
(* allocate_block, free_inode and the error paths of fs_create_file and    *)
(* fs_create_dir: at every step the bitmap marks exactly the blocks of the *)
(* inodes in use (block 0 apart), and no block is held twice, by two       *)
(* inodes or at two places of one.                                         *)
(***************************************************************************)
BlockOwnership ==
    /\ block_bitmap \ {NoBlock} = UNION {BlocksOf(i) : i \in Inode}
    /\ \A i, j \in Inode : i # j => BlocksOf(i) \cap BlocksOf(j) = {}
    /\ \A i \in Inode : \A j, k \in BlockIndices(i) :
           inode_table[i].blocks[j] = inode_table[i].blocks[k] => j = k

Directories == {d \in Inode : inode_table[d].type = "DIR"
                              /\ inode_table[d].blocks[0] # NoBlock}
UsedEntries(d) == {s \in Slot : dir_entries(d)[s].in_use}
Links(i) == {e \in Directories \X Slot :
                e[2] \in UsedEntries(e[1]) /\ dir_entries(e[1])[e[2]].inode = i}

(***************************************************************************)
(* fs_delete_file frees an inode and clears the first entry that names it, *)
(* and no call counts links: so at every step each entry in use must name  *)
(* an inode in use, and a file's inode must have one entry at most.        *)
(***************************************************************************)
NoDanglingEntries ==
    /\ \A d \in Directories : \A s \in UsedEntries(d) :
           dir_entries(d)[s].inode \in Live
    /\ \A i \in Inode : inode_table[i].type = "FILE" =>
           \A e, f \in Links(i) : e = f

(***************************************************************************)
(* reboot and shutdown sync nothing: whenever the shell can run them, and  *)
(* on every early return of a call, the inode table and the bitmap on disk *)
(* are those in RAM (block 0, which no inode can name, apart).             *)
(***************************************************************************)
SyncedAtRest ==
    pc \in {"idle", "return", "off"} =>
        /\ d_inode_table = inode_table
        /\ d_block_bitmap \ {NoBlock} = block_bitmap \ {NoBlock}
        /\ d_superblock.installed = 1

(***************************************************************************)
(* The order of allocations and syncs in the three calls: at every step of *)
(* a running call at most one inode differs from its image on disk, so a   *)
(* table sync cut short by a failure loses or keeps one inode's change.    *)
(***************************************************************************)
OneDirtyInode ==
    pc \notin {"boot", "off"} =>
        \A i, j \in Inode :
            (inode_table[i] # d_inode_table[i] /\ inode_table[j] # d_inode_table[j])
            => i = j

(***************************************************************************)
(* superblock.free_inodes and .free_blocks are kept by six functions and   *)
(* saved by one call in three.  Until the first reboot of the installed    *)
(* system they count the free inodes and blocks exactly.                   *)
(***************************************************************************)
CountersExact ==
    (pc \notin {"boot", "off"} /\ boots <= 2) =>
        /\ superblock.free_inodes = Cardinality(FreeInodes)
        /\ superblock.free_blocks = Cardinality(FreeBlocks)

\* What reading every block of inode i returns.
Stored(i) == [j \in BlockIndices(i) |-> d_data[inode_table[i].blocks[j]].chunk]

(***************************************************************************)
(* No call touches a file but the one it creates or deletes: a step that   *)
(* leaves a file's inode in use leaves its size, its blocks and the data   *)
(* they hold, unless the step is the write of that file's next block.      *)
(***************************************************************************)
FileContentStable ==
    [][\A i \in Inode :
          (/\ inode_table[i].type = "FILE"
           /\ inode_table'[i].type = "FILE"
           /\ ~ (pc = "file_data" /\ frame.inode = i))
          => inode_table'[i] = inode_table[i] /\ Stored(i)' = Stored(i)]_vars

(***************************************************************************)
(* Every call returns, and every boot reaches the shell or, after an       *)
(* installation, the menu: the recursion of fs_create_dir ends, and        *)
(* fs_create_file does not wait for its fs_delete_file to succeed.         *)
(***************************************************************************)
CallReturns == (pc \notin {"idle", "off"}) ~> (pc \in {"idle", "off"})

-----------------------------------------------------------------------------
(* What the README says of the commands; the runs that refute these are    *)
(* the project's findings.                                                 *)

Done(op) == pc = "return" /\ result = "ok" /\ task.op = op

(***************************************************************************)
(* README.md:271, touch: "Crear archivo vacio".  fs_create_file that       *)
(* returns 0 has made the file.                                            *)
(***************************************************************************)
TouchCreatesFile == Done("create_file") => fs_file_exists(task.path)

(***************************************************************************)
(* README.md:270, mkdir: "Crear directorio".  fs_create_dir that returns 0 *)
(* leaves a directory there.                                               *)
(***************************************************************************)
MkdirCreatesDirectory == Done("create_dir") => fs_dir_exists(task.path)

(***************************************************************************)
(* README.md:345: a file may have 16 KB.  What fs_create_file accepted and *)
(* answered 0 for is what fs_read_file gives back.                         *)
(***************************************************************************)
CatShowsContent ==
    (Done("create_file") /\ fs_file_exists(task.path))
        => fs_read_file(task.path) = task.content

=============================================================================
