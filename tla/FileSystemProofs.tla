--------------------------- MODULE FileSystemProofs ---------------------------
(***************************************************************************)
(* Theorems about FileSystem, for every size of its tables, every list of  *)
(* installed directories and every set of calls: the types, who owns a     *)
(* block, what is saved when, and the counters of the superblock.          *)
(***************************************************************************)
EXTENDS FileSystem, FiniteSetTheorems, FunctionTheorems, SequenceTheorems,
        WellFoundedInduction, TLAPS

-----------------------------------------------------------------------------
(* The strengthening of TypeOK that makes it inductive                     *)

FileLabel == {"parent_made", "file_alloc", "file_data",
              "file_inodes", "file_bitmap", "file_superblock"}
DirLabel == {"dir_alloc", "dir_link", "dir_inodes", "dir_bitmap"}

\* Which call runs where, and what the checks at the head of fs_create_file
\* and the recursion of fs_create_dir have established by then.
CallInv ==
    /\ pc \in {"idle", "off", "boot"} => task = NoTask
    /\ pc \in FileLabel \cup {"create_file"} => task.op = "create_file"
    /\ (task.op = "create_file" /\ pc \notin {"create_file", "return"}) =>
           Len(task.content) <= FS_MAX_FILE_SIZE /\ task.path # << >>
    /\ pc \in DirLabel => frame.depth \in 1 .. Len(frame.dir)

TypeInv == TypeOK /\ CallInv

-----------------------------------------------------------------------------
(* The helpers of the code                                                 *)

(***************************************************************************)
(* The search loops of allocate_block, allocate_inode and the directory    *)
(* scans find the least index when there is one.                           *)
(***************************************************************************)
LEMMA FirstProperty ==
    ASSUME NEW S \in SUBSET Nat, S # {}
    PROVE  First(S) \in S /\ \A n \in S : First(S) <= n
<1> DEFINE Less == {ss \in Nat \X Nat : ss[1] < ss[2]}
<1>1. IsWellFoundedOn(Less, Nat)
  BY NatLessThanWellFounded DEF OpToRel
<1>2. PICK m \in S : \A n \in S : <<n, m>> \notin Less
  BY <1>1, WFMin
<1>3. ASSUME NEW n \in S, ~ (m <= n) PROVE FALSE
  <2>1. n \in Nat /\ m \in Nat /\ n < m
    BY <1>3
  <2>2. <<n, m>> \in Nat \X Nat /\ <<n, m>>[1] = n /\ <<n, m>>[2] = m
    BY <2>1
  <2>3. <<n, m>> \in Less
    BY <2>1, <2>2
  <2> QED
    BY <1>2, <2>3
<1> QED
  BY <1>3 DEF First

(***************************************************************************)
(* Plus and Minus stay inside a uint32_t.                                  *)
(***************************************************************************)
LEMMA CounterType ==
    ASSUME NEW counter \in Int, NEW n \in Int
    PROVE  /\ Plus(counter, n) \in 0 .. WORD - 1
           /\ Minus(counter, n) \in 0 .. WORD - 1
BY SizesAssumption DEF Plus, Minus

(***************************************************************************)
(* find_inode_by_path returns an inode number or 0xFFFFFFFF.               *)
(***************************************************************************)
LEMMA FindType ==
    ASSUME NEW path
    PROVE  /\ find_inode_by_path(path) \in Inode \cup {NoInode}
           /\ find_inode_by_path(path) # NoInode => find_inode_by_path(path) \in Inode
BY DEF find_inode_by_path

(***************************************************************************)
(* allocate_inode returns a free inode, allocate_block a block that is not *)
(* marked, or each its "none".                                             *)
(***************************************************************************)
LEMMA AllocateInode ==
    allocate_inode # NoInode => allocate_inode \in Inode
                                /\ inode_table[allocate_inode].type = "FREE"
<1>1. FreeInodes \in SUBSET Nat
  BY SizesAssumption DEF FreeInodes, Inode
<1> QED
  BY <1>1, FirstProperty DEF allocate_inode, FreeInodes

LEMMA AllocateBlock ==
    allocate_block # NoFreeBlock => allocate_block \in Block
                                    /\ allocate_block \notin block_bitmap
<1>1. FreeBlocks \in SUBSET Nat
  BY SizesAssumption DEF FreeBlocks, Block
<1> QED
  BY <1>1, FirstProperty DEF allocate_block, FreeBlocks

LEMMA ConstantTypes ==
    /\ 0 \in Inode /\ 0 \in Block /\ 1 \in Block /\ 0 \in DirectBlock
    /\ StoredSlot \subseteq Slot /\ 0 \in Slot /\ 1 \in Slot
    /\ Inode \subseteq Nat /\ NoInode \notin Inode
    /\ FreeInode \in InodeRecord
    /\ FreeEntry \in DirEntry
    /\ ZeroSector \in Sector
    /\ ZeroSuperblock \in Superblock
BY SizesAssumption DEF Inode, Block, DirectBlock, Slot, StoredSlot, NoInode,
   FreeInode, InodeRecord, NoBlock, FreeEntry, DirEntry, NoName, ZeroSector,
   Sector, ZeroSuperblock, Superblock

(***************************************************************************)
(* Reading and writing a block stays inside the disk.                      *)
(***************************************************************************)
LEMMA ReadType ==
    ASSUME TypeOK, NEW b \in Block
    PROVE  read_inode_block(b) \in Sector
BY ConstantTypes DEF TypeOK, DiskTypeOK, read_inode_block

LEMMA WriteType ==
    ASSUME TypeOK, NEW b \in Block, NEW sector \in Sector,
           write_inode_block(b, sector)
    PROVE  d_data' \in [Block -> Sector]
BY DEF TypeOK, DiskTypeOK, write_inode_block

LEMMA FirstBlockType ==
    ASSUME TypeOK, NEW i \in Inode
    PROVE  inode_table[i].blocks[0] \in Block
BY ConstantTypes DEF TypeOK, RamTypeOK, InodeRecord

LEMMA EntriesType ==
    ASSUME TypeOK, NEW i \in Inode
    PROVE  dir_entries(i) \in [Slot -> DirEntry]
BY ReadType, FirstBlockType, ConstantTypes DEF dir_entries, Sector

LEMMA DirSectorType ==
    ASSUME NEW entries \in [Slot -> DirEntry]
    PROVE  DirSector(entries) \in Sector
BY ConstantTypes DEF DirSector, Sector

LEMMA ChunkSectorType ==
    ASSUME NEW value \in Data
    PROVE  ChunkSector(value) \in Sector
BY ConstantTypes DEF ChunkSector, Sector, ZeroSector

LEMMA NewDirectoryType ==
    ASSUME NEW i \in Inode, NEW j \in Inode
    PROVE  NewDirectory(i, j) \in [Slot -> DirEntry]
<1>1. [in_use |-> TRUE, name |-> Dot, inode |-> i] \in DirEntry
  BY DEF DirEntry, Component
<1>2. [in_use |-> TRUE, name |-> DotDot, inode |-> j] \in DirEntry
  BY DEF DirEntry, Component
<1> QED
  BY <1>1, <1>2, ConstantTypes DEF NewDirectory

(***************************************************************************)
(* free_inode leaves the three tables well-typed.                          *)
(***************************************************************************)
LEMMA BlockCount ==
    ASSUME NEW i \in Inode
    PROVE  Cardinality(BlockIndices(i)) \in Nat
<1>1. IsFiniteSet(DirectBlock)
  BY SizesAssumption, FS_Interval DEF DirectBlock
<1>2. BlockIndices(i) \in SUBSET DirectBlock
  BY DEF BlockIndices
<1> QED
  BY <1>1, <1>2, FS_Subset, FS_CardinalityType

LEMMA FreeInodeType ==
    ASSUME TypeOK, NEW i \in Inode, free_inode(i)
    PROVE  RamTypeOK'
<1>1. inode_table' \in [Inode -> InodeRecord]
  BY ConstantTypes DEF TypeOK, RamTypeOK, free_inode
<1>2. block_bitmap' \in SUBSET Block
  BY DEF TypeOK, RamTypeOK, free_inode
<1>3. /\ Plus(superblock.free_inodes, 1) \in 0 .. WORD - 1
      /\ Plus(superblock.free_blocks, Cardinality(BlockIndices(i))) \in 0 .. WORD - 1
  BY CounterType, BlockCount DEF TypeOK, RamTypeOK, Superblock
<1>4. superblock' \in Superblock
  BY <1>3 DEF TypeOK, RamTypeOK, free_inode, Superblock
<1> QED
  BY <1>1, <1>2, <1>4 DEF RamTypeOK

LEMMA TaskType ==
    ASSUME NEW t \in Task
    PROVE  t.path \in Path /\ t.content \in Seq(Data)
<1>1. CASE t \in Request
  BY <1>1 DEF Request
<1>2. CASE t \notin Request
  <2>1. t.path = << >> /\ t.content = << >>
    BY <1>2 DEF Task, NoTask
  <2> QED
    BY <2>1, EmptySeq DEF Path
<1> QED
  BY <1>1, <1>2

LEMMA PathParts ==
    ASSUME NEW path \in Path
    PROVE  /\ Len(path) \in Nat
           /\ Parent(path) \in Path
           /\ \A k \in 0 .. Len(path) :
                  Prefix(path, k) \in Path /\ Len(Prefix(path, k)) = k
           /\ path # << >> => Len(path) >= 1 /\ FileName(path) \in Component
<1>1. Len(path) \in Nat /\ \A k \in 1 .. Len(path) : path[k] \in Component
  BY LenProperties DEF Path
<1>2. \A k \in 0 .. Len(path) :
         Prefix(path, k) \in Path /\ Len(Prefix(path, k)) = k
  <2> SUFFICES ASSUME NEW k \in 0 .. Len(path)
               PROVE  Prefix(path, k) \in Path /\ Len(Prefix(path, k)) = k
    OBVIOUS
  <2> QED
    BY <1>1, SubSeqProperties DEF Prefix, Path
<1>3. path # << >> => Len(path) >= 1
  BY <1>1, EmptySeq DEF Path
<1>4. Parent(path) \in Path
  BY <1>1, SubSeqProperties DEF Parent, Path
<1> QED
  BY <1>1, <1>2, <1>3, <1>4 DEF FileName

-----------------------------------------------------------------------------
(* Type correctness                                                        *)

LEMMA TypeInit == Init => TypeInv
<1> SUFFICES ASSUME Init PROVE TypeInv
  OBVIOUS
<1>1. RamTypeOK
  BY ConstantTypes DEF Init, RamTypeOK
<1>2. DiskTypeOK
  BY ConstantTypes DEF Init, DiskTypeOK
<1>3. NoFrame \in Frame
  BY ConstantTypes, EmptySeq DEF NoFrame, Frame, Path, Root
<1>4. ControlTypeOK
  BY <1>3 DEF Init, ControlTypeOK, Label, Task
<1>5. CallInv
  BY DEF Init, CallInv, FileLabel, DirLabel, NoTask
<1> QED
  BY <1>1, <1>2, <1>4, <1>5 DEF TypeInv, TypeOK

(***************************************************************************)
(* A call that ends, in each of the three ways the code has.               *)
(***************************************************************************)
LEMMA LeaveType ==
    ASSUME TypeInv, NEW r \in {"ok", "error"}, Leave(r)
    PROVE  ControlTypeOK' /\ CallInv'
BY DEF TypeInv, TypeOK, ControlTypeOK, CallInv, Leave, Goto, Label,
       FileLabel, DirLabel

LEMMA CreateDirReturnsType ==
    ASSUME TypeInv, pc \in {"create_dir", "dir_bitmap"}, CreateDirReturnsOk
    PROVE  ControlTypeOK' /\ CallInv'
<1>1. CASE task.op = "create_file"
  BY <1>1 DEF TypeInv, TypeOK, ControlTypeOK, CallInv, CreateDirReturnsOk,
     Goto, Label, FileLabel, DirLabel
<1>2. CASE task.op # "create_file"
  BY <1>2, LeaveType DEF CreateDirReturnsOk
<1> QED
  BY <1>1, <1>2

LEMMA DeleteReturnsType ==
    ASSUME TypeInv, pc \in {"delete_file", "delete_bitmap"},
           NEW r \in {"ok", "error"}, DeleteReturns(r)
    PROVE  ControlTypeOK' /\ CallInv'
<1>1. CASE task.op = "create_file"
  BY <1>1 DEF TypeInv, TypeOK, ControlTypeOK, CallInv, DeleteReturns,
     Goto, Label, FileLabel, DirLabel
<1>2. CASE task.op # "create_file"
  BY <1>2, LeaveType DEF DeleteReturns
<1> QED
  BY <1>1, <1>2

\* A step to another label of the same function, with the same task and frame.
LEMMA GotoType ==
    ASSUME TypeInv, NEW next, Goto(next),
           UNCHANGED <<task, frame, result, boots>>,
           \/ pc = "install_superblock" /\ next = "install_inodes"
           \/ pc = "install_inodes" /\ next = "install_bitmap"
           \/ pc = "install_bitmap" /\ next = "install_dirs"
           \/ pc = "dir_link" /\ next = "dir_inodes"
           \/ pc = "dir_inodes" /\ next = "dir_bitmap"
           \/ pc = "create_file" /\ next = "parent_made"
                /\ Len(task.content) <= FS_MAX_FILE_SIZE /\ task.path # << >>
           \/ pc = "file_data" /\ next = "file_inodes"
           \/ pc = "file_inodes" /\ next = "file_bitmap"
           \/ pc = "file_bitmap" /\ next = "file_superblock"
           \/ pc = "delete_file" /\ next = "delete_inodes"
           \/ pc = "delete_inodes" /\ next = "delete_bitmap"
           \/ pc = "boot" /\ next = "idle"
           \/ pc = "idle" /\ next = "off"
    PROVE  ControlTypeOK' /\ CallInv'
BY DEF TypeInv, TypeOK, ControlTypeOK, CallInv, Goto, Label, FileLabel, DirLabel

\* A directory entry is linked, or the inode is given back.
LEMMA LinkEntryType ==
    ASSUME TypeInv, NEW name \in Component, NEW next, LinkEntry(name, next),
           \/ pc = "dir_link" /\ next = "dir_inodes"
           \/ pc = "file_data" /\ next = "file_inodes"
    PROVE  TypeInv'
<1> DEFINE entries == dir_entries(frame.parent)
           free == {s \in Slot : ~ entries[s].in_use}
           entry == [in_use |-> TRUE, name |-> name, inode |-> frame.inode]
<1>1. frame.parent \in Inode /\ frame.inode \in Inode /\ TypeOK
  BY DEF TypeInv, TypeOK, ControlTypeOK, Frame
<1>2. CASE free = {}
  <2>1. free_inode(frame.inode) /\ Leave("error") /\ UNCHANGED disk
    BY <1>2 DEF LinkEntry, GiveBack
  <2>2. RamTypeOK'
    BY <1>1, <2>1, FreeInodeType
  <2>3. DiskTypeOK'
    BY <1>1, <2>1 DEF TypeOK, DiskTypeOK, disk, metadata
  <2> QED
    BY <2>1, <2>2, <2>3, LeaveType DEF TypeInv, TypeOK
<1>3. CASE free # {}
  <2>1. /\ write_inode_block(inode_table[frame.parent].blocks[0],
                DirSector([entries EXCEPT ![First(free)] = entry]))
        /\ Goto(next)
        /\ UNCHANGED <<ram, metadata, task, frame, result, boots>>
    BY <1>3 DEF LinkEntry
  <2>2. entries \in [Slot -> DirEntry]
    BY <1>1, EntriesType
  <2>3. entry \in DirEntry
    BY <1>1 DEF DirEntry
  <2>4. DirSector([entries EXCEPT ![First(free)] = entry]) \in Sector
    BY <2>2, <2>3, DirSectorType
  <2>5. DiskTypeOK'
    BY <1>1, <2>1, <2>4, FirstBlockType, WriteType
       DEF TypeOK, DiskTypeOK, metadata
  <2>6. RamTypeOK'
    BY <1>1, <2>1 DEF TypeOK, RamTypeOK, ram
  <2>7. ControlTypeOK' /\ CallInv'
    BY <2>1, GotoType
  <2> QED
    BY <2>5, <2>6, <2>7 DEF TypeInv, TypeOK
<1> QED
  BY <1>2, <1>3

\* A step of the file system, whatever is called: Session makes calls of its own.
Step == Next \/ \E request \in Request : Call(request)

LEMMA TypeNext == TypeInv /\ [Step]_vars => TypeInv'
<1> SUFFICES ASSUME TypeInv, [Step]_vars PROVE TypeInv'
  OBVIOUS
<1> USE DEF TypeInv, TypeOK
<1>0. frame.parent \in Inode /\ frame.inode \in Inode /\ frame.dir \in Path
      /\ frame.depth \in Nat /\ frame.i \in Nat
      /\ task.path \in Path /\ task.content \in Seq(Data)
  BY TaskType DEF ControlTypeOK, Frame
<1>1. CASE UNCHANGED vars
  BY <1>1 DEF vars, ram, disk, metadata, control, RamTypeOK, DiskTypeOK,
     ControlTypeOK, CallInv
<1>2. CASE BootInstalled
  <2>1. RamTypeOK' /\ DiskTypeOK'
    BY <1>2 DEF BootInstalled, RamTypeOK, DiskTypeOK, disk, metadata
  <2>2. ControlTypeOK' /\ CallInv'
    BY <1>2, GotoType DEF BootInstalled
  <2> QED
    BY <2>1, <2>2
<1>3. CASE InstallRoot
  <2>1. superblock' \in Superblock
    BY <1>3, CounterType, SizesAssumption DEF InstallRoot, Superblock
  <2>2. inode_table' \in [Inode -> InodeRecord]
    BY <1>3, ConstantTypes DEF InstallRoot, InodeRecord, FreeInode
  <2>3. block_bitmap' \in SUBSET Block
    BY <1>3, ConstantTypes DEF InstallRoot
  <2>4. d_data' \in [Block -> Sector]
    BY <1>3, ConstantTypes, NewDirectoryType, DirSectorType, WriteType
       DEF InstallRoot, Root
  <2>5. DiskTypeOK'
    BY <1>3, <2>4 DEF InstallRoot, DiskTypeOK, metadata
  <2>6. ControlTypeOK'
    BY <1>3 DEF InstallRoot, ControlTypeOK, Goto, Label, Task
  <2>7. CallInv'
    BY <1>3 DEF InstallRoot, CallInv, Goto, FileLabel, DirLabel, NoTask
  <2> QED
    BY <2>1, <2>2, <2>3, <2>5, <2>6, <2>7 DEF RamTypeOK
<1>4. CASE InstallSyncSuperblock
  <2>1. RamTypeOK' /\ DiskTypeOK'
    BY <1>4 DEF InstallSyncSuperblock, sync_superblock, ram, RamTypeOK, DiskTypeOK
  <2>2. ControlTypeOK' /\ CallInv'
    BY <1>4, GotoType DEF InstallSyncSuperblock
  <2> QED
    BY <2>1, <2>2
<1>5. CASE InstallSyncInodes
  <2>1. RamTypeOK' /\ DiskTypeOK'
    BY <1>5 DEF InstallSyncInodes, sync_inode_table, ram, RamTypeOK, DiskTypeOK
  <2>2. ControlTypeOK' /\ CallInv'
    BY <1>5, GotoType DEF InstallSyncInodes
  <2> QED
    BY <2>1, <2>2
<1>6. CASE InstallSyncBitmap
  <2>1. RamTypeOK' /\ DiskTypeOK'
    BY <1>6 DEF InstallSyncBitmap, sync_block_bitmap, RamTypeOK, DiskTypeOK
  <2>2. ControlTypeOK' /\ CallInv'
    BY <1>6, GotoType DEF InstallSyncBitmap
  <2> QED
    BY <2>1, <2>2
<1>7. CASE InstallNextDir
  <2>1. InstallDirs[frame.i + 1] \in Path
    BY <1>7, <1>0, CallsAssumption, LenProperties DEF InstallNextDir
  <2>a. \A d \in Path, n \in Nat : [frame EXCEPT !.dir = d, !.i = n] \in Frame
    BY DEF ControlTypeOK, Frame
  <2>b. frame.i + 1 \in Nat
    BY <1>0
  <2>c. [frame EXCEPT !.dir = InstallDirs[frame.i + 1], !.i = frame.i + 1] \in Frame
    BY <2>1, <2>a, <2>b
  <2>2. frame' \in Frame
    BY <1>7, <2>c DEF InstallNextDir
  <2>3. ControlTypeOK' /\ CallInv'
    BY <1>7, <2>2 DEF InstallNextDir, ControlTypeOK, CallInv, Goto, Label,
       FileLabel, DirLabel
  <2> QED
    BY <1>7, <2>3 DEF InstallNextDir, ram, disk, metadata, RamTypeOK, DiskTypeOK
<1>8. CASE InstallFinish
  <2>1. RamTypeOK' /\ DiskTypeOK'
    BY <1>8 DEF InstallFinish, sync_superblock, sync_inode_table,
       sync_block_bitmap, ram, RamTypeOK, DiskTypeOK
  <2>2. NoFrame \in Frame
    BY ConstantTypes, EmptySeq DEF NoFrame, Frame, Path, Root
  <2>3. ControlTypeOK' /\ CallInv'
    BY <1>8, <2>2 DEF InstallFinish, ControlTypeOK, CallInv, Goto, Label, Task,
       NoTask, FileLabel, DirLabel
  <2> QED
    BY <2>1, <2>3
<1>9. CASE PowerOn
  BY <1>9 DEF PowerOn, ram, disk, metadata, RamTypeOK, DiskTypeOK,
     ControlTypeOK, CallInv, Goto, Label, FileLabel, DirLabel
<1>10. CASE SwitchOff
  <2>1. ControlTypeOK' /\ CallInv'
    BY <1>10, GotoType DEF SwitchOff
  <2> QED
    BY <1>10, <2>1 DEF SwitchOff, ram, disk, metadata, RamTypeOK, DiskTypeOK
<1>11. ASSUME NEW request \in Request, Call(request) PROVE TypeInv'
  <2>1. request.op \in {"create_dir", "create_file", "delete_file"}
        /\ request \in Task /\ request.path \in Path
    BY DEF Request, Task
  <2> DEFINE dir == IF request.op = "create_dir" THEN request.path ELSE << >>
  <2>a. dir \in Path
    BY <2>1, EmptySeq DEF Path
  <2>b. frame' = [dir |-> dir, depth |-> 0, parent |-> Root, inode |-> Root, i |-> 0]
    BY <1>11 DEF Call, NoFrame
  <2> HIDE DEF dir
  <2>2. frame' \in Frame
    BY <2>a, <2>b, ConstantTypes DEF Frame, Root
  <2>3. ControlTypeOK' /\ CallInv'
    BY <1>11, <2>1, <2>2 DEF Call, ControlTypeOK, CallInv, Goto, Label,
       FileLabel, DirLabel
  <2> QED
    BY <1>11, <2>3 DEF Call, ram, disk, metadata, RamTypeOK, DiskTypeOK
<1>12. CASE Return
  <2>1. NoFrame \in Frame
    BY ConstantTypes, EmptySeq DEF NoFrame, Frame, Path, Root
  <2>2. ControlTypeOK' /\ CallInv'
    BY <1>12, <2>1 DEF Return, ControlTypeOK, CallInv, Goto, Label, Task,
       NoTask, FileLabel, DirLabel
  <2> QED
    BY <1>12, <2>2 DEF Return, ram, disk, metadata, RamTypeOK, DiskTypeOK
<1>13. CASE CreateDirEnter
  <2> DEFINE missing == {k \in 1 .. Len(frame.dir) : ~ Exists(Prefix(frame.dir, k))}
  <2>1. RamTypeOK' /\ DiskTypeOK'
    BY <1>13 DEF CreateDirEnter, ram, disk, metadata, RamTypeOK, DiskTypeOK
  <2>2. CASE Leave("error")
    BY <2>1, <2>2, LeaveType
  <2>3. CASE CreateDirReturnsOk
    BY <1>13, <2>1, <2>3, CreateDirReturnsType DEF CreateDirEnter
  <2>4. CASE /\ frame.dir # << >> /\ ~ Exists(frame.dir)
             /\ frame' = [frame EXCEPT !.depth = First(missing)]
             /\ Goto("dir_alloc")
             /\ UNCHANGED <<task, result, boots>>
    <3>1. Len(frame.dir) \in 1 .. Len(frame.dir)
      BY <1>0, <2>4, PathParts
    <3>2. Prefix(frame.dir, Len(frame.dir)) = frame.dir
      BY <1>0, SubSeqFull DEF Prefix, Path
    <3>3. missing # {} /\ missing \in SUBSET Nat
      BY <2>4, <3>1, <3>2
    <3>4. First(missing) \in 1 .. Len(frame.dir)
      BY <3>3, FirstProperty
    <3> HIDE DEF missing
    <3>5. ControlTypeOK' /\ CallInv'
      BY <1>13, <2>4, <3>4, PathParts, <1>0 DEF CreateDirEnter, ControlTypeOK, Frame,
         CallInv, Goto, Label, FileLabel, DirLabel
    <3> QED
      BY <2>1, <3>5
  <2> QED
    BY <1>13, <2>2, <2>3, <2>4 DEF CreateDirEnter
<1>14. CASE CreateDirAlloc
  <2> DEFINE parent == find_inode_by_path(Prefix(frame.dir, frame.depth - 1))
             inode == allocate_inode
             block == allocate_block
  <2>1. CASE Leave("error") /\ UNCHANGED <<ram, disk>>
    BY <2>1, LeaveType DEF ram, disk, metadata, RamTypeOK, DiskTypeOK
  <2>2. CASE /\ IsDirectory(parent) /\ inode # NoInode /\ block # NoFreeBlock
             /\ inode_table' = [inode_table EXCEPT ![inode] =
                    [FreeInode EXCEPT !.type = "DIR", !.blocks[0] = block]]
             /\ block_bitmap' = block_bitmap \cup {block}
             /\ superblock' = [superblock EXCEPT
                    !.free_inodes = Minus(@, 1), !.free_blocks = Minus(@, 1)]
             /\ write_inode_block(block, DirSector(NewDirectory(inode, parent)))
             /\ frame' = [frame EXCEPT !.parent = parent, !.inode = inode]
             /\ Goto("dir_link")
             /\ UNCHANGED <<metadata, task, result, boots>>
    <3>1. parent \in Inode /\ inode \in Inode /\ block \in Block
      BY <2>2, FindType, AllocateInode, AllocateBlock DEF IsDirectory
    <3> HIDE DEF parent, inode, block
    <3>a. /\ Minus(superblock.free_inodes, 1) \in 0 .. WORD - 1
          /\ Minus(superblock.free_blocks, 1) \in 0 .. WORD - 1
      BY CounterType DEF RamTypeOK, Superblock
    <3>2. superblock' \in Superblock
      BY <2>2, <3>a DEF RamTypeOK, Superblock
    <3>3. [FreeInode EXCEPT !.type = "DIR", !.blocks[0] = block] \in InodeRecord
      BY <3>1, ConstantTypes DEF FreeInode, InodeRecord
    <3>4. RamTypeOK'
      BY <2>2, <3>1, <3>2, <3>3 DEF RamTypeOK
    <3>5. d_data' \in [Block -> Sector]
      BY <2>2, <3>1, NewDirectoryType, DirSectorType, WriteType
    <3>6. DiskTypeOK'
      BY <2>2, <3>5 DEF DiskTypeOK, metadata
    <3>7. ControlTypeOK' /\ CallInv'
      BY <1>14, <2>2, <3>1 DEF CreateDirAlloc, ControlTypeOK, Frame, CallInv,
         Goto, Label, FileLabel, DirLabel
    <3> QED
      BY <3>4, <3>6, <3>7
  <2> QED
    BY <1>14, <2>1, <2>2 DEF CreateDirAlloc
<1>15. CASE CreateDirLink
  <2>1. FileName(Prefix(frame.dir, frame.depth)) \in Component
    <3>1. frame.depth \in 1 .. Len(frame.dir) /\ frame.depth \in 0 .. Len(frame.dir)
      BY <1>15, <1>0, PathParts DEF CreateDirLink, CallInv, DirLabel
    <3>2. Prefix(frame.dir, frame.depth) \in Path
          /\ Len(Prefix(frame.dir, frame.depth)) >= 1
      BY <1>0, <3>1, PathParts
    <3>3. Prefix(frame.dir, frame.depth) # << >>
      BY <3>2, EmptySeq DEF Path
    <3> QED
      BY <3>2, <3>3, PathParts
  <2> QED
    BY <1>15, <2>1, LinkEntryType DEF CreateDirLink
<1>16. CASE CreateDirSyncInodes
  <2>1. RamTypeOK' /\ DiskTypeOK'
    BY <1>16 DEF CreateDirSyncInodes, sync_inode_table, ram, RamTypeOK, DiskTypeOK
  <2>2. ControlTypeOK' /\ CallInv'
    BY <1>16, GotoType DEF CreateDirSyncInodes
  <2> QED
    BY <2>1, <2>2
<1>17. CASE CreateDirSyncBitmap
  <2>1. RamTypeOK' /\ DiskTypeOK'
    BY <1>17 DEF CreateDirSyncBitmap, sync_block_bitmap, ram, RamTypeOK, DiskTypeOK
  <2>2. CASE frame.depth < Len(frame.dir)
    <3>1. frame' \in Frame /\ frame'.depth \in 1 .. Len(frame'.dir)
      BY <1>17, <2>2, <1>0, PathParts DEF CreateDirSyncBitmap, ControlTypeOK, Frame
    <3>2. ControlTypeOK' /\ CallInv'
      BY <1>17, <2>2, <3>1 DEF CreateDirSyncBitmap, ControlTypeOK, CallInv, Goto,
         Label, FileLabel, DirLabel
    <3> QED
      BY <2>1, <3>2
  <2>3. CASE ~ (frame.depth < Len(frame.dir))
    BY <1>17, <2>1, <2>3, CreateDirReturnsType DEF CreateDirSyncBitmap
  <2> QED
    BY <2>2, <2>3
<1>18. CASE CreateFileEnter
  <2>1. RamTypeOK' /\ DiskTypeOK'
    BY <1>18 DEF CreateFileEnter, ram, disk, metadata, RamTypeOK, DiskTypeOK
  <2>2. CASE Leave("error")
    BY <2>1, <2>2, LeaveType
  <2>3. CASE /\ Len(task.content) <= FS_MAX_FILE_SIZE /\ task.path # << >>
             /\ frame' = [frame EXCEPT !.dir = Parent(task.path)]
             /\ Goto("create_dir")
             /\ UNCHANGED <<task, result, boots>>
    <3>1. frame' \in Frame
      BY <1>0, <2>3, PathParts DEF ControlTypeOK, Frame
    <3>2. ControlTypeOK' /\ CallInv'
      BY <1>18, <2>3, <3>1 DEF CreateFileEnter, ControlTypeOK, CallInv, Goto,
         Label, FileLabel, DirLabel
    <3> QED
      BY <2>1, <3>2
  <2>4. CASE /\ Len(task.content) <= FS_MAX_FILE_SIZE /\ task.path # << >>
             /\ Goto("parent_made")
             /\ UNCHANGED <<task, frame, result, boots>>
    <3>1. ControlTypeOK' /\ CallInv'
      BY <1>18, <2>4, GotoType DEF CreateFileEnter
    <3> QED
      BY <2>1, <3>1
  <2> QED
    BY <1>18, <2>2, <2>3, <2>4 DEF CreateFileEnter, Acceptable
<1>19. CASE CreateFileParent
  <2> DEFINE parent == find_inode_by_path(Parent(task.path))
  <2>1. RamTypeOK' /\ DiskTypeOK'
    BY <1>19 DEF CreateFileParent, ram, disk, metadata, RamTypeOK, DiskTypeOK
  <2>2. CASE Leave("error")
    BY <2>1, <2>2, LeaveType
  <2>3. CASE /\ IsDirectory(parent)
             /\ frame' = [frame EXCEPT !.parent = parent]
             /\ Goto(IF Exists(task.path) THEN "delete_file" ELSE "file_alloc")
             /\ UNCHANGED <<task, result, boots>>
    <3>1. parent \in Inode
      BY <2>3, FindType DEF IsDirectory
    <3> HIDE DEF parent
    <3>2. frame' \in Frame
      BY <2>3, <3>1 DEF ControlTypeOK, Frame
    <3>3. pc' \in {"delete_file", "file_alloc"}
      BY <2>3 DEF Goto
    <3>4. ControlTypeOK' /\ CallInv'
      BY <1>19, <2>3, <3>2, <3>3 DEF CreateFileParent, ControlTypeOK, CallInv,
         Label, FileLabel, DirLabel
    <3> QED
      BY <2>1, <3>4
  <2> QED
    BY <1>19, <2>2, <2>3 DEF CreateFileParent
<1>20. CASE CreateFileAlloc
  <2>1. DiskTypeOK'
    BY <1>20 DEF CreateFileAlloc, disk, metadata, DiskTypeOK
  <2>2. CASE Leave("error") /\ UNCHANGED ram
    BY <2>1, <2>2, LeaveType DEF ram, RamTypeOK
  <2>3. CASE /\ allocate_inode # NoInode
             /\ inode_table' = [inode_table EXCEPT ![allocate_inode] =
                    [FreeInode EXCEPT !.type = "FILE", !.size = Len(task.content)]]
             /\ superblock' = [superblock EXCEPT !.free_inodes = Minus(@, 1)]
             /\ frame' = [frame EXCEPT !.inode = allocate_inode, !.i = 0]
             /\ Goto("file_data")
             /\ UNCHANGED <<block_bitmap, task, result, boots>>
    <3>1. Len(task.content) \in 0 .. FS_MAX_FILE_SIZE
      BY <1>0, <1>20, LenProperties, SizesAssumption
         DEF CreateFileAlloc, CallInv, FileLabel
    <3>2. [FreeInode EXCEPT !.type = "FILE", !.size = Len(task.content)] \in InodeRecord
      BY <3>1, ConstantTypes DEF FreeInode, InodeRecord
    <3>3. Minus(superblock.free_inodes, 1) \in 0 .. WORD - 1
      BY CounterType DEF RamTypeOK, Superblock
    <3>4. superblock' \in Superblock
      BY <2>3, <3>3 DEF RamTypeOK, Superblock
    <3>5. RamTypeOK'
      BY <2>3, <3>2, <3>4, AllocateInode DEF RamTypeOK
    <3>6. frame' \in Frame
      BY <2>3, AllocateInode DEF ControlTypeOK, Frame
    <3>7. ControlTypeOK' /\ CallInv'
      BY <1>20, <2>3, <3>6 DEF CreateFileAlloc, ControlTypeOK, CallInv, Goto,
         Label, FileLabel, DirLabel
    <3> QED
      BY <2>1, <3>5, <3>7
  <2> QED
    BY <1>20, <2>2, <2>3 DEF CreateFileAlloc
<1>21. CASE CreateFileData
  <2>1. CASE /\ free_inode(frame.inode) /\ Leave("error") /\ UNCHANGED disk
    BY <1>0, <2>1, LeaveType, FreeInodeType DEF disk, metadata, DiskTypeOK
  <2>2. CASE /\ allocate_block # NoFreeBlock
             /\ inode_table' = [inode_table EXCEPT
                    ![frame.inode].blocks[frame.i] = allocate_block]
             /\ block_bitmap' = block_bitmap \cup {allocate_block}
             /\ superblock' = [superblock EXCEPT !.free_blocks = Minus(@, 1)]
             /\ write_inode_block(allocate_block,
                                  ChunkSector(task.content[frame.i + 1]))
             /\ frame' = [frame EXCEPT !.i = @ + 1]
             /\ UNCHANGED <<metadata, pc, task, result, boots>>
    <3>1. allocate_block \in Block
      BY <2>2, AllocateBlock
    <3>2. task.content[frame.i + 1] \in Data
      BY <1>0, <1>21, LenProperties, SizesAssumption, ElementOfSeq
         DEF CreateFileData, BlocksNeeded, Lesser
    <3>3. d_data' \in [Block -> Sector]
      BY <2>2, <3>1, <3>2, ChunkSectorType, WriteType
    <3>4. DiskTypeOK'
      BY <2>2, <3>3 DEF DiskTypeOK, metadata
    <3>5. Minus(superblock.free_blocks, 1) \in 0 .. WORD - 1
      BY CounterType DEF RamTypeOK, Superblock
    <3>6. superblock' \in Superblock
      BY <2>2, <3>5 DEF RamTypeOK, Superblock
    <3>7. RamTypeOK'
      BY <1>0, <2>2, <3>1, <3>6 DEF RamTypeOK, InodeRecord
    <3>8. frame' \in Frame
      BY <2>2 DEF ControlTypeOK, Frame
    <3>9. ControlTypeOK' /\ CallInv'
      BY <1>21, <2>2, <3>8 DEF CreateFileData, ControlTypeOK, CallInv,
         FileLabel, DirLabel
    <3> QED
      BY <3>4, <3>7, <3>9
  <2> QED
    BY <1>21, <2>1, <2>2 DEF CreateFileData, GiveBack
<1>22. CASE CreateFileLink
  <2>1. FileName(task.path) \in Component
    BY <1>0, <1>22, PathParts DEF CreateFileLink, CallInv, FileLabel
  <2> QED
    BY <1>22, <2>1, LinkEntryType DEF CreateFileLink
<1>23. CASE CreateFileSyncInodes
  <2>1. RamTypeOK' /\ DiskTypeOK'
    BY <1>23 DEF CreateFileSyncInodes, sync_inode_table, ram, RamTypeOK, DiskTypeOK
  <2>2. ControlTypeOK' /\ CallInv'
    BY <1>23, GotoType DEF CreateFileSyncInodes
  <2> QED
    BY <2>1, <2>2
<1>24. CASE CreateFileSyncBitmap
  <2>1. RamTypeOK' /\ DiskTypeOK'
    BY <1>24 DEF CreateFileSyncBitmap, sync_block_bitmap, ram, RamTypeOK, DiskTypeOK
  <2>2. ControlTypeOK' /\ CallInv'
    BY <1>24, GotoType DEF CreateFileSyncBitmap
  <2> QED
    BY <2>1, <2>2
<1>25. CASE CreateFileSyncSuperblock
  BY <1>25, LeaveType DEF CreateFileSyncSuperblock, sync_superblock, ram,
     RamTypeOK, DiskTypeOK
<1>26. CASE DeleteFileEnter
  <2> DEFINE parent == find_inode_by_path(Parent(task.path))
             file == find_inode_by_path(task.path)
             left == WithoutEntry(dir_entries(parent), file)
  <2>1. CASE DeleteReturns("error") /\ UNCHANGED <<ram, disk>>
    BY <1>26, <2>1, DeleteReturnsType DEF DeleteFileEnter, ram, disk, metadata,
       RamTypeOK, DiskTypeOK
  <2>2. CASE /\ parent # NoInode /\ fs_file_exists(task.path)
             /\ free_inode(file)
             /\ write_inode_block(inode_table[parent].blocks[0], DirSector(left))
             /\ Goto("delete_inodes")
             /\ UNCHANGED <<metadata, task, frame, result, boots>>
    <3>1. parent \in Inode /\ file \in Inode
      BY <2>2, FindType DEF fs_file_exists
    <3>2. dir_entries(parent) \in [Slot -> DirEntry]
      BY <3>1, EntriesType
    <3>3. left \in [Slot -> DirEntry]
      BY <3>2, ConstantTypes DEF WithoutEntry
    <3> HIDE DEF parent, file, left
    <3>4. d_data' \in [Block -> Sector]
      BY <2>2, <3>1, <3>3, DirSectorType, FirstBlockType, WriteType
    <3>5. DiskTypeOK'
      BY <2>2, <3>4 DEF DiskTypeOK, metadata
    <3>6. RamTypeOK'
      BY <2>2, <3>1, FreeInodeType
    <3>7. ControlTypeOK' /\ CallInv'
      BY <1>26, <2>2, GotoType DEF DeleteFileEnter
    <3> QED
      BY <3>5, <3>6, <3>7
  <2> QED
    BY <1>26, <2>1, <2>2 DEF DeleteFileEnter
<1>27. CASE DeleteSyncInodes
  <2>1. RamTypeOK' /\ DiskTypeOK'
    BY <1>27 DEF DeleteSyncInodes, sync_inode_table, ram, RamTypeOK, DiskTypeOK
  <2>2. ControlTypeOK' /\ CallInv'
    BY <1>27, GotoType DEF DeleteSyncInodes
  <2> QED
    BY <2>1, <2>2
<1>28. CASE DeleteSyncBitmap
  BY <1>28, DeleteReturnsType DEF DeleteSyncBitmap, sync_block_bitmap, ram,
     RamTypeOK, DiskTypeOK
<1> QED
  BY <1>1, <1>2, <1>3, <1>4, <1>5, <1>6, <1>7, <1>8, <1>9, <1>10, <1>11, <1>12,
     <1>13, <1>14, <1>15, <1>16, <1>17, <1>18, <1>19, <1>20, <1>21, <1>22,
     <1>23, <1>24, <1>25, <1>26, <1>27, <1>28, CallsAssumption
     DEF Step, Next, Kernel, User, Boot, Install, CreateDir, CreateFile, DeleteFile

(***************************************************************************)
(* Every number the code stores, in RAM or on disk, is inside its table,   *)
(* in every run of every instance: no allocation, lookup or deletion makes *)
(* an inode or block number out of range.                                  *)
(***************************************************************************)
THEOREM TypeCorrect == Spec => []TypeOK
<1>1. TypeInv => TypeOK
  BY DEF TypeInv
<1> QED
  BY <1>1, TypeInit, TypeNext, PTL DEF Spec, Step

-----------------------------------------------------------------------------
(* The strengthening of BlockOwnership and SyncedAtRest that makes them    *)
(* inductive: how far disk and RAM may differ at each point of a call.  It *)
(* speaks of disks with lost blocks too, which a power failure leaves      *)
(* (FileSystemCrash): what no step can lose is kept apart (Whole).         *)

Marked == block_bitmap \ {NoBlock}
SavedMarks == d_block_bitmap \ {NoBlock}

\* The bitmap marks the blocks the inodes hold, and each has one holder.
Owned ==
    /\ \A i \in Inode : BlocksOf(i) \subseteq block_bitmap
    /\ \A i, j \in Inode : i # j => BlocksOf(i) \cap BlocksOf(j) = {}
    /\ \A i \in Inode : \A j, k \in BlockIndices(i) :
           inode_table[i].blocks[j] = inode_table[i].blocks[k] => j = k

\* ... and it marks no other.
NoLeak == Marked \subseteq UNION {BlocksOf(i) : i \in Inode}

LEMMA OwnershipParts == BlockOwnership <=> Owned /\ NoLeak
<1>1. \A i \in Inode : NoBlock \notin BlocksOf(i)
  BY DEF BlocksOf, BlockIndices
<1> QED
  BY <1>1 DEF BlockOwnership, Owned, NoLeak, Marked


\* Nothing allocated or freed since the last syncs.
Settled == {"boot", "off", "idle", "return", "install_dirs", "create_dir",
            "dir_alloc", "create_file", "parent_made", "file_alloc",
            "file_superblock", "delete_file"}

\* frame.inode is allocated in RAM and not on disk.
Building == {"dir_link", "dir_inodes", "file_data", "file_inodes"}

\* A free inode in the table is blank (free_inode clears all of it).
FreeIsBlank ==
    \A i \in Inode : inode_table[i].type = "FREE" => inode_table[i] = FreeInode

\* The boot takes the installed branch exactly when there is something to load.
InstalledInv ==
    /\ pc \notin {"boot", "off"} => superblock.installed = 1
    /\ pc \notin {"boot", "off", "install_superblock"} => d_superblock.installed = 1
    /\ (pc \in {"boot", "off"} /\ d_superblock.installed # 1) =>
           d_inode_table = [i \in Inode |-> FreeInode]

SavedInv ==
    /\ pc \in Settled => d_inode_table = inode_table /\ SavedMarks = Marked
    /\ pc \in Building =>
           /\ d_inode_table = [inode_table EXCEPT ![frame.inode] = FreeInode]
           /\ SavedMarks = Marked \ BlocksOf(frame.inode)
    /\ pc \in {"install_superblock", "install_inodes"} =>
           d_inode_table = [inode_table EXCEPT ![Root] = FreeInode]
    /\ pc = "delete_inodes" =>
           \E i \in Inode :
               /\ inode_table[i] = FreeInode /\ d_inode_table[i].type = "FILE"
               /\ d_inode_table = [inode_table EXCEPT ![i] = d_inode_table[i]]
    /\ pc \in {"install_bitmap", "dir_bitmap", "file_bitmap", "delete_bitmap"} =>
           d_inode_table = inode_table

\* The loop of fs_create_file has filled the direct blocks below frame.i.
LoopInv ==
    pc = "file_data" =>
        /\ inode_table[frame.inode].type = "FILE"
        /\ \A j \in BlockIndices(frame.inode) : j < frame.i

BlockInv ==
    /\ TypeInv
    /\ Owned
    /\ FreeIsBlank
    /\ InstalledInv
    /\ SavedInv
    /\ LoopInv

\* Nothing was lost, and the machine was not cut off before its installation.
Whole == NoLeak /\ (pc = "off" => d_superblock.installed = 1)

\* What a step does to the ownership of blocks.
Kept == Owned' /\ (NoLeak => NoLeak')

-----------------------------------------------------------------------------
(* The three ways a step changes who owns what                             *)

\* No inode's block numbers change, nor the bitmap (block 0 apart).
LEMMA SameBlocks ==
    ASSUME Owned,
           \A i \in Inode : inode_table'[i].blocks = inode_table[i].blocks,
           block_bitmap' \ {NoBlock} = block_bitmap \ {NoBlock}
    PROVE  /\ Kept
           /\ \A i \in Inode : BlocksOf(i)' = BlocksOf(i)
           /\ \A i \in Inode : BlockIndices(i)' = BlockIndices(i)
<1>1. \A i \in Inode : BlockIndices(i)' = BlockIndices(i)
  BY DEF BlockIndices
<1>2. \A i \in Inode : BlocksOf(i)' = BlocksOf(i)
  BY <1>1 DEF BlocksOf
<1>3. NoLeak => NoLeak'
  BY <1>2 DEF NoLeak, Marked
<1>4. \A i \in Inode : BlocksOf(i)' \subseteq block_bitmap'
  <2>1. \A i \in Inode : NoBlock \notin BlocksOf(i)
    BY DEF BlocksOf, BlockIndices
  <2> QED
    BY <1>2, <2>1 DEF Owned
<1> QED
  BY <1>1, <1>2, <1>3, <1>4 DEF Kept, Owned

\* Inode i gets a free block at an empty place.
LEMMA GainBlock ==
    ASSUME TypeOK, Owned,
           NEW i \in Inode, NEW j \in DirectBlock, NEW b \in Block,
           b \notin block_bitmap,
           inode_table[i].blocks[j] = NoBlock,
           inode_table'[i].blocks = [inode_table[i].blocks EXCEPT ![j] = b],
           \A k \in Inode \ {i} : inode_table'[k].blocks = inode_table[k].blocks,
           block_bitmap' = block_bitmap \cup {b}
    PROVE  /\ Kept
           /\ BlockIndices(i)' \subseteq BlockIndices(i) \cup {j}
           /\ BlocksOf(i)' = BlocksOf(i) \cup ({b} \ {NoBlock})
<1>0. inode_table[i].blocks \in [DirectBlock -> Block]
  BY DEF TypeOK, RamTypeOK, InodeRecord
<1>1. BlockIndices(i)' = IF b = NoBlock THEN BlockIndices(i) ELSE BlockIndices(i) \cup {j}
  BY <1>0 DEF BlockIndices
<1>2. BlocksOf(i)' = BlocksOf(i) \cup ({b} \ {NoBlock})
  <2>1. \A k \in BlockIndices(i) : k # j /\ inode_table'[i].blocks[k] = inode_table[i].blocks[k]
    BY <1>0 DEF BlockIndices
  <2>2. inode_table'[i].blocks[j] = b
    BY <1>0
  <2> QED
    BY <1>1, <2>1, <2>2 DEF BlocksOf
<1>3. \A k \in Inode \ {i} : BlockIndices(k)' = BlockIndices(k)
  BY DEF BlockIndices
<1>4. \A k \in Inode \ {i} : BlocksOf(k)' = BlocksOf(k)
  BY <1>3 DEF BlocksOf
<1>5. \A k \in Inode : BlocksOf(k) \subseteq block_bitmap
  BY DEF Owned
<1>6. /\ \A k \in Inode : BlocksOf(k)' \subseteq block_bitmap'
      /\ NoLeak => NoLeak'
  <2>1. \A k \in Inode : BlocksOf(k) \subseteq BlocksOf(k)'
    BY <1>2, <1>4
  <2>2. ASSUME NoLeak PROVE NoLeak'
    <3>1. \A x \in Marked' : \E k \in Inode : x \in BlocksOf(k)'
      BY <1>2, <2>1, <2>2 DEF NoLeak, Marked
    <3> QED
      BY <3>1 DEF NoLeak
  <2> QED
    BY <1>2, <1>4, <1>5, <2>2
<1>7. \A k, m \in Inode : k # m => BlocksOf(k)' \cap BlocksOf(m)' = {}
  BY <1>2, <1>4, <1>5 DEF Owned
<1>8. ASSUME NEW k \in Inode, NEW m \in BlockIndices(k)', NEW n \in BlockIndices(k)',
             inode_table'[k].blocks[m] = inode_table'[k].blocks[n]
      PROVE  m = n
  <2>1. CASE k # i
    BY <1>3, <1>8, <2>1 DEF Owned
  <2>2. CASE k = i
    <3>1. \A x \in BlockIndices(i) :
             inode_table'[i].blocks[x] \in block_bitmap /\ x # j
             /\ inode_table'[i].blocks[x] = inode_table[i].blocks[x]
      BY <1>0, <1>5 DEF BlocksOf, BlockIndices
    <3>2. inode_table'[i].blocks[j] = b
      BY <1>0
    <3>3. CASE m = j \/ n = j
      BY <1>1, <1>8, <2>2, <3>1, <3>2, <3>3
    <3>4. CASE m # j /\ n # j
      <4>1. m \in BlockIndices(i) /\ n \in BlockIndices(i)
        BY <1>1, <2>2, <3>4
      <4> QED
        BY <1>8, <2>2, <3>1, <4>1 DEF Owned
    <3> QED
      BY <3>3, <3>4
  <2> QED
    BY <2>1, <2>2
<1> QED
  BY <1>1, <1>2, <1>6, <1>7, <1>8 DEF Kept, Owned

\* Inode i and all its blocks are given back.
LEMMA LoseBlocks ==
    ASSUME TypeOK, Owned, FreeIsBlank, NEW i \in Inode, free_inode(i)
    PROVE  Kept /\ FreeIsBlank' /\ superblock'.installed = superblock.installed
<1>1. /\ inode_table'[i] = FreeInode
      /\ \A k \in Inode \ {i} : inode_table'[k] = inode_table[k]
      /\ block_bitmap' = block_bitmap \ BlocksOf(i)
      /\ superblock'.installed = superblock.installed
  BY DEF free_inode, TypeOK, RamTypeOK, Superblock
<1>2. BlockIndices(i)' = {}
  BY <1>1 DEF BlockIndices, FreeInode
<1>3. BlocksOf(i)' = {}
  BY <1>2 DEF BlocksOf
<1>4. \A k \in Inode \ {i} : BlockIndices(k)' = BlockIndices(k)
  BY <1>1 DEF BlockIndices
<1>5. \A k \in Inode \ {i} : BlocksOf(k)' = BlocksOf(k)
  BY <1>1, <1>4 DEF BlocksOf
<1>6. /\ \A k \in Inode : BlocksOf(k)' \subseteq block_bitmap'
      /\ NoLeak => NoLeak'
  <2>1. \A k \in Inode : BlocksOf(k)' \subseteq block_bitmap'
    BY <1>1, <1>3, <1>5 DEF Owned
  <2>2. ASSUME NoLeak, NEW x \in Marked' PROVE \E k \in Inode : x \in BlocksOf(k)'
    <3>1. x \in Marked /\ x \notin BlocksOf(i)
      BY <1>1, <2>2 DEF Marked
    <3> QED
      BY <1>5, <2>2, <3>1 DEF NoLeak
  <2> QED
    BY <2>1, <2>2 DEF NoLeak
<1>7. \A k, m \in Inode : k # m => BlocksOf(k)' \cap BlocksOf(m)' = {}
  BY <1>3, <1>5 DEF Owned
<1>8. \A k \in Inode : \A m, n \in BlockIndices(k)' :
         inode_table'[k].blocks[m] = inode_table'[k].blocks[n] => m = n
  BY <1>1, <1>2, <1>4 DEF Owned
<1>9. Kept
  BY <1>6, <1>7, <1>8 DEF Kept, Owned
<1>10. FreeIsBlank'
  BY <1>1 DEF FreeIsBlank
<1> QED
  BY <1>1, <1>9, <1>10

-----------------------------------------------------------------------------
(* The invariant is inductive                                              *)

SafeStep == Kept /\ FreeIsBlank' /\ InstalledInv' /\ SavedInv' /\ LoopInv'

LEMMA BlockInit == Init => BlockInv /\ Whole
<1> SUFFICES ASSUME Init
             PROVE  Owned /\ FreeIsBlank /\ InstalledInv /\ SavedInv /\ LoopInv /\ Whole
  BY TypeInit DEF BlockInv
<1>1. \A i \in Inode : BlockIndices(i) = {}
  BY DEF Init, BlockIndices, FreeInode
<1>2. \A i \in Inode : BlocksOf(i) = {}
  BY <1>1 DEF BlocksOf
<1>3. Owned /\ Whole
  BY <1>1, <1>2 DEF Init, Owned, Whole, NoLeak, Marked
<1> QED
  BY <1>3 DEF Init, FreeIsBlank, InstalledInv, SavedInv, LoopInv, Settled,
     Building, SavedMarks, Marked, ZeroSuperblock

\* Steps that change neither copy and stay between two syncs.
LEMMA SettledStep ==
    ASSUME BlockInv, pc \in Settled \ {"boot"}, UNCHANGED <<ram, disk>>,
           pc' \in Settled, pc = "off" => pc' = "boot"
    PROVE  SafeStep
<1>1. Kept
  BY SameBlocks DEF BlockInv, ram
<1> QED
  BY <1>1 DEF BlockInv, SafeStep, FreeIsBlank, InstalledInv, SavedInv, LoopInv, ram,
     disk, metadata, Settled, Building, SavedMarks, Marked

\* The three ways a call ends lead to a settled state.
LEMMA Returns ==
    /\ \A r : Leave(r) => pc' \in {"install_dirs", "return"}
    /\ CreateDirReturnsOk => pc' \in {"install_dirs", "return", "parent_made"}
    /\ \A r : DeleteReturns(r) => pc' \in {"install_dirs", "return", "file_alloc"}
BY DEF Leave, CreateDirReturnsOk, DeleteReturns, Goto

\* sync_inode_table of a call whose inode is complete in RAM.
LEMMA InodesSynced ==
    ASSUME BlockInv, UNCHANGED ram, d_inode_table' = inode_table,
           UNCHANGED d_superblock,
           pc \in {"install_inodes", "dir_inodes", "file_inodes", "delete_inodes"},
           pc' \in {"install_bitmap", "dir_bitmap", "file_bitmap", "delete_bitmap"}
    PROVE  SafeStep
<1>1. Kept
  BY SameBlocks DEF BlockInv, ram
<1> QED
  BY <1>1 DEF BlockInv, SafeStep, FreeIsBlank, InstalledInv, SavedInv, LoopInv, ram,
     Settled, Building

\* sync_block_bitmap, the last of a call's syncs that matters.
LEMMA BitmapSynced ==
    ASSUME BlockInv, UNCHANGED ram, d_block_bitmap' = block_bitmap,
           UNCHANGED <<d_superblock, d_inode_table>>,
           pc \in {"dir_bitmap", "file_bitmap", "delete_bitmap"},
           pc' \in Settled \ {"boot"}
    PROVE  SafeStep
<1>1. Kept
  BY SameBlocks DEF BlockInv, ram
<1> QED
  BY <1>1 DEF BlockInv, SafeStep, FreeIsBlank, InstalledInv, SavedInv, LoopInv, ram,
     Settled, Building, SavedMarks, Marked

\* The error path of a half-made file or directory.
LEMMA GivenBack ==
    ASSUME BlockInv, pc \in {"dir_link", "file_data"}, GiveBack
    PROVE  SafeStep
<1>1. frame.inode \in Inode /\ TypeOK
  BY DEF BlockInv, TypeInv, TypeOK, ControlTypeOK, Frame
<1>2. Kept /\ FreeIsBlank' /\ superblock'.installed = superblock.installed
  BY <1>1, LoseBlocks DEF BlockInv, GiveBack
<1>3. pc' \in {"install_dirs", "return"}
  BY Returns DEF GiveBack
<1>4. /\ d_inode_table' = [inode_table EXCEPT ![frame.inode] = FreeInode]
      /\ SavedMarks' = Marked \ BlocksOf(frame.inode)
      /\ d_superblock' = d_superblock /\ d_superblock.installed = 1
      /\ superblock.installed = 1
  BY DEF BlockInv, SavedInv, InstalledInv, Building, GiveBack, disk, metadata,
     SavedMarks
<1>5. d_inode_table' = inode_table' /\ SavedMarks' = Marked'
  BY <1>4 DEF GiveBack, free_inode, Marked
<1> QED
  BY <1>2, <1>3, <1>4, <1>5 DEF SafeStep, InstalledInv, SavedInv, LoopInv, Settled,
     Building

\* The directory entry is written: no table changes.
LEMMA Linked ==
    ASSUME BlockInv, NEW name, NEW next, LinkEntry(name, next),
           pc \in {"dir_link", "file_data"}, next \in {"dir_inodes", "file_inodes"}
    PROVE  SafeStep
<1>1. CASE GiveBack
  BY <1>1, GivenBack
<1>2. CASE Goto(next) /\ UNCHANGED <<ram, metadata, task, frame, result, boots>>
  <2>1. pc' \in {"dir_inodes", "file_inodes"}
    BY <1>2 DEF Goto
  <2>2. Kept /\ BlocksOf(frame.inode)' = BlocksOf(frame.inode)
    <3>1. /\ Kept
          /\ \A i \in Inode : BlocksOf(i)' = BlocksOf(i)
      BY <1>2, SameBlocks DEF BlockInv, ram
    <3> QED
      BY <1>2, <3>1 DEF BlockInv, TypeInv, TypeOK, ControlTypeOK, Frame
  <2> QED
    BY <1>2, <2>1, <2>2 DEF BlockInv, SafeStep, FreeIsBlank, InstalledInv, SavedInv,
       LoopInv, ram, metadata, Settled, Building, SavedMarks, Marked
<1> QED
  BY <1>1, <1>2 DEF LinkEntry

LEMMA BlockNext == BlockInv /\ [Step]_vars => BlockInv' /\ (NoLeak => NoLeak')
<1> SUFFICES ASSUME BlockInv, [Step]_vars PROVE SafeStep
  BY TypeNext DEF BlockInv, SafeStep, Kept
<1>0. TypeOK /\ Owned
  BY DEF BlockInv, TypeInv
<1>1. CASE UNCHANGED vars
  <2>1. Kept /\ \A i \in Inode : BlocksOf(i)' = BlocksOf(i)
    BY <1>0, <1>1, SameBlocks DEF vars, ram
  <2>2. BlocksOf(frame.inode)' = BlocksOf(frame.inode)
        /\ BlockIndices(frame.inode)' = BlockIndices(frame.inode)
    BY <1>1 DEF BlocksOf, BlockIndices, vars, ram, control
  <2> QED
    BY <1>1, <2>1, <2>2 DEF BlockInv, SafeStep, FreeIsBlank, InstalledInv, SavedInv,
       LoopInv, vars, ram, disk, metadata, control, Settled, Building,
       SavedMarks, Marked
<1>2. CASE BootInstalled
  <2>1. /\ pc = "boot" /\ pc' = "idle"
        /\ superblock'.installed = 1 /\ d_superblock'.installed = 1
        /\ inode_table' = d_inode_table /\ d_inode_table' = d_inode_table
        /\ block_bitmap' = d_block_bitmap /\ d_block_bitmap' = d_block_bitmap
    BY <1>2 DEF BootInstalled, Goto, disk, metadata
  <2>2. d_inode_table = inode_table /\ SavedMarks = Marked
    BY <2>1 DEF BlockInv, SavedInv, Settled
  <2>3. Kept
    BY <1>0, <2>1, <2>2, SameBlocks DEF SavedMarks, Marked
  <2> QED
    BY <2>1, <2>2, <2>3 DEF BlockInv, SafeStep, FreeIsBlank, InstalledInv, SavedInv,
       LoopInv, Settled, Building, SavedMarks, Marked
<1>3. CASE InstallRoot
  <2>1. /\ pc = "boot" /\ pc' = "install_superblock"
        /\ superblock'.installed = 1
        /\ inode_table' = [i \in Inode |->
               IF i = Root
               THEN [FreeInode EXCEPT !.type = "DIR", !.blocks[0] = 1]
               ELSE FreeInode]
        /\ block_bitmap' = {1}
        /\ d_inode_table' = d_inode_table
        /\ d_inode_table = [i \in Inode |-> FreeInode]
    BY <1>3 DEF InstallRoot, Goto, metadata, BlockInv, InstalledInv
  <2>2. \A i \in Inode : BlockIndices(i)' = IF i = Root THEN {0} ELSE {}
    BY <2>1, ConstantTypes DEF BlockIndices, FreeInode, NoBlock
  <2>3. \A i \in Inode : BlocksOf(i)' = IF i = Root THEN {1} ELSE {}
    BY <2>1, <2>2, ConstantTypes DEF BlocksOf, FreeInode, Root
  <2>4. Owned' /\ NoLeak'
    <3>1. Root \in Inode
      BY ConstantTypes DEF Root
    <3>2. \A i \in Inode : BlocksOf(i)' \subseteq block_bitmap'
      BY <2>1, <2>3
    <3>3. NoLeak'
      BY <2>1, <2>3, <3>1 DEF NoLeak, Marked
    <3> QED
      BY <2>2, <2>3, <3>2, <3>3 DEF Owned
  <2>5. Kept
    BY <2>4 DEF Kept
  <2>6. d_inode_table' = [inode_table' EXCEPT ![Root] = FreeInode]
    BY <2>1, ConstantTypes DEF Root
  <2>7. FreeIsBlank'
    BY <2>1 DEF FreeIsBlank, FreeInode
  <2> QED
    BY <2>1, <2>5, <2>6, <2>7 DEF SafeStep, InstalledInv, SavedInv, LoopInv, Settled,
       Building
<1>4. CASE InstallSyncSuperblock
  <2>1. Kept
    BY <1>0, <1>4, SameBlocks DEF InstallSyncSuperblock, ram
  <2> QED
    BY <1>4, <2>1 DEF InstallSyncSuperblock, Goto, sync_superblock, ram, BlockInv,
       SafeStep, FreeIsBlank, InstalledInv, SavedInv, LoopInv, Settled, Building
<1>5. CASE InstallSyncInodes
  BY <1>5, InodesSynced DEF InstallSyncInodes, Goto, sync_inode_table
<1>6. CASE InstallSyncBitmap
  <2>1. /\ pc = "install_bitmap" /\ pc' = "install_dirs"
        /\ superblock' = d_superblock /\ d_superblock' = d_superblock
        /\ inode_table' = d_inode_table /\ d_inode_table' = d_inode_table
        /\ block_bitmap' = block_bitmap /\ d_block_bitmap' = block_bitmap
    BY <1>6 DEF InstallSyncBitmap, Goto, sync_block_bitmap
  <2>2. d_inode_table = inode_table
    BY <2>1 DEF BlockInv, SavedInv
  <2>3. Kept
    BY <1>0, <2>1, <2>2, SameBlocks
  <2> QED
    BY <2>1, <2>2, <2>3 DEF BlockInv, SafeStep, FreeIsBlank, InstalledInv, SavedInv,
       LoopInv, Settled, Building, SavedMarks, Marked
<1>7. CASE InstallNextDir
  BY <1>7, SettledStep DEF InstallNextDir, Goto, Settled
<1>8. CASE InstallFinish
  <2>1. Kept
    BY <1>0, <1>8, SameBlocks DEF InstallFinish, ram
  <2> QED
    BY <1>8, <2>1 DEF InstallFinish, Goto, sync_superblock, sync_inode_table,
       sync_block_bitmap, ram, BlockInv, SafeStep, FreeIsBlank, InstalledInv, SavedInv,
       LoopInv, Settled, Building, SavedMarks, Marked
<1>9. CASE PowerOn
  BY <1>9, SettledStep DEF PowerOn, Goto, Settled
<1>10. CASE SwitchOff
  BY <1>10, SettledStep DEF SwitchOff, Goto, Settled
<1>11. ASSUME NEW request \in Request, Call(request) PROVE SafeStep
  <2>1. request.op \in {"create_dir", "create_file", "delete_file"}
    BY DEF Request
  <2> QED
    BY <1>11, <2>1, SettledStep DEF Call, Goto, Settled
<1>12. CASE Return
  BY <1>12, SettledStep DEF Return, Goto, Settled
<1>13. CASE CreateDirEnter
  <2>1. pc' \in {"dir_alloc", "install_dirs", "return", "parent_made"}
    BY <1>13, Returns DEF CreateDirEnter, Goto
  <2> QED
    BY <1>13, <2>1, SettledStep DEF CreateDirEnter, Settled
<1>14. CASE CreateDirAlloc
  <2>1. CASE Leave("error") /\ UNCHANGED <<ram, disk>>
    BY <1>14, <2>1, Returns, SettledStep DEF CreateDirAlloc, Settled
  <2>2. CASE /\ allocate_inode # NoInode /\ allocate_block # NoFreeBlock
             /\ inode_table' = [inode_table EXCEPT ![allocate_inode] =
                    [FreeInode EXCEPT !.type = "DIR", !.blocks[0] = allocate_block]]
             /\ block_bitmap' = block_bitmap \cup {allocate_block}
             /\ superblock' = [superblock EXCEPT
                    !.free_inodes = Minus(@, 1), !.free_blocks = Minus(@, 1)]
             /\ frame'.inode = allocate_inode
             /\ Goto("dir_link")
             /\ UNCHANGED metadata
    <3>1. PICK inode \in Inode, block \in Block :
             /\ inode = allocate_inode /\ inode_table[inode] = FreeInode
             /\ block = allocate_block /\ block \notin block_bitmap
      BY <2>2, AllocateInode, AllocateBlock DEF BlockInv, FreeIsBlank
    <3>2. BlockIndices(inode) = {} /\ BlocksOf(inode) = {}
      BY <3>1 DEF BlockIndices, BlocksOf, FreeInode
    <3>3. /\ inode_table'[inode].blocks = [inode_table[inode].blocks EXCEPT ![0] = block]
          /\ inode_table'[inode].type = "DIR"
          /\ \A k \in Inode \ {inode} : inode_table'[k] = inode_table[k]
      BY <1>0, <2>2, <3>1 DEF FreeInode, TypeOK, RamTypeOK
    <3>4. Kept /\ BlocksOf(inode)' = {block} \ {NoBlock}
      <4>1. 0 \in DirectBlock /\ inode_table[inode].blocks[0] = NoBlock
        BY <3>1, ConstantTypes DEF FreeInode
      <4>2. \A k \in Inode \ {inode} : inode_table'[k].blocks = inode_table[k].blocks
        BY <3>3
      <4>3. block_bitmap' = block_bitmap \cup {block}
        BY <2>2, <3>1
      <4> QED
        BY <1>0, <3>1, <3>2, <3>3, <4>1, <4>2, <4>3, GainBlock
    <3>5. FreeIsBlank'
      BY <3>3 DEF FreeIsBlank, BlockInv
    <3>6. pc = "dir_alloc" /\ pc' = "dir_link"
      BY <1>14, <2>2 DEF CreateDirAlloc, Goto
    <3>7. /\ superblock'.installed = 1
          /\ d_superblock' = d_superblock /\ d_superblock.installed = 1
      BY <1>0, <2>2, <3>6 DEF TypeOK, RamTypeOK, Superblock, metadata, BlockInv,
         InstalledInv
    <3>8. /\ d_inode_table' = [inode_table' EXCEPT ![inode] = FreeInode]
          /\ SavedMarks' = Marked' \ BlocksOf(inode)'
      <4>1. /\ d_inode_table' = inode_table
            /\ SavedMarks' = Marked
        BY <2>2, <3>6 DEF BlockInv, SavedInv, Settled, SavedMarks, metadata
      <4> QED
        BY <1>0, <2>2, <3>1, <3>4, <4>1 DEF Marked, TypeOK, RamTypeOK
    <3>9. BlocksOf(frame.inode)' = BlocksOf(inode)'
      BY <2>2, <3>1 DEF BlocksOf, BlockIndices
    <3> QED
      BY <2>2, <3>1, <3>4, <3>5, <3>6, <3>7, <3>8, <3>9 DEF SafeStep, InstalledInv, SavedInv,
         LoopInv, Settled, Building
  <2> QED
    BY <1>0, <1>14, <2>1, <2>2 DEF CreateDirAlloc, TypeOK, ControlTypeOK, Frame
<1>15. CASE CreateDirLink
  BY <1>15, Linked DEF CreateDirLink
<1>16. CASE CreateDirSyncInodes
  BY <1>16, InodesSynced DEF CreateDirSyncInodes, Goto, sync_inode_table
<1>17. CASE CreateDirSyncBitmap
  <2>1. pc' \in {"dir_alloc", "install_dirs", "return", "parent_made"}
    BY <1>17, Returns DEF CreateDirSyncBitmap, Goto
  <2> QED
    BY <1>17, <2>1, BitmapSynced DEF CreateDirSyncBitmap, sync_block_bitmap, Settled
<1>18. CASE CreateFileEnter
  <2>1. pc' \in {"create_dir", "install_dirs", "return", "parent_made"}
    BY <1>18, Returns DEF CreateFileEnter, Goto
  <2> QED
    BY <1>18, <2>1, SettledStep DEF CreateFileEnter, Settled
<1>19. CASE CreateFileParent
  <2>1. pc' \in {"delete_file", "file_alloc", "install_dirs", "return"}
    BY <1>19, Returns DEF CreateFileParent, Goto
  <2> QED
    BY <1>19, <2>1, SettledStep DEF CreateFileParent, Settled
<1>20. CASE CreateFileAlloc
  <2>1. CASE Leave("error") /\ UNCHANGED <<ram, disk>>
    BY <1>20, <2>1, Returns, SettledStep DEF CreateFileAlloc, Settled
  <2>2. CASE /\ allocate_inode # NoInode
             /\ inode_table' = [inode_table EXCEPT ![allocate_inode] =
                    [FreeInode EXCEPT !.type = "FILE", !.size = Len(task.content)]]
             /\ superblock' = [superblock EXCEPT !.free_inodes = Minus(@, 1)]
             /\ frame' = [frame EXCEPT !.inode = allocate_inode, !.i = 0]
             /\ Goto("file_data")
             /\ UNCHANGED <<block_bitmap, disk>>
    <3>1. PICK inode \in Inode : inode = allocate_inode /\ inode_table[inode] = FreeInode
      BY <2>2, AllocateInode DEF BlockInv, FreeIsBlank
    <3>2. frame'.inode = inode
      BY <1>0, <2>2, <3>1 DEF TypeOK, ControlTypeOK, Frame
    <3>3. /\ inode_table'[inode].blocks = inode_table[inode].blocks
          /\ inode_table'[inode].type = "FILE"
          /\ \A k \in Inode \ {inode} : inode_table'[k] = inode_table[k]
      BY <1>0, <2>2, <3>1 DEF FreeInode, TypeOK, RamTypeOK
    <3>4. BlockIndices(inode) = {} /\ BlocksOf(inode) = {}
      BY <3>1 DEF BlockIndices, BlocksOf, FreeInode
    <3>5. /\ Kept
          /\ BlocksOf(inode)' = {} /\ BlockIndices(inode)' = {}
      BY <1>0, <2>2, <3>1, <3>3, <3>4, SameBlocks
    <3>6. BlocksOf(frame.inode)' = {} /\ BlockIndices(frame.inode)' = {}
      BY <3>2, <3>5 DEF BlocksOf, BlockIndices
    <3>7. FreeIsBlank'
      BY <3>3 DEF FreeIsBlank, BlockInv
    <3>8. pc = "file_alloc" /\ pc' = "file_data"
      BY <1>20, <2>2 DEF CreateFileAlloc, Goto
    <3>9. /\ superblock'.installed = 1
          /\ d_superblock' = d_superblock /\ d_superblock.installed = 1
      BY <1>0, <2>2, <3>8 DEF TypeOK, RamTypeOK, Superblock, disk, metadata, BlockInv,
         InstalledInv
    <3>10. /\ d_inode_table' = [inode_table' EXCEPT ![inode] = FreeInode]
           /\ SavedMarks' = Marked'
      <4>1. d_inode_table' = inode_table /\ SavedMarks' = Marked
        BY <2>2, <3>8 DEF BlockInv, SavedInv, Settled, SavedMarks, disk, metadata
      <4> QED
        BY <1>0, <2>2, <3>1, <4>1 DEF Marked, TypeOK, RamTypeOK
    <3> QED
      BY <3>2, <3>3, <3>5, <3>6, <3>7, <3>8, <3>9, <3>10 DEF SafeStep, InstalledInv, SavedInv,
         LoopInv, Settled, Building
  <2> QED
    BY <1>20, <2>1, <2>2 DEF CreateFileAlloc
<1>21. CASE CreateFileData
  <2>1. CASE GiveBack
    BY <1>21, <2>1, GivenBack DEF CreateFileData
  <2>2. CASE /\ allocate_block # NoFreeBlock
             /\ inode_table' = [inode_table EXCEPT
                    ![frame.inode].blocks[frame.i] = allocate_block]
             /\ block_bitmap' = block_bitmap \cup {allocate_block}
             /\ superblock' = [superblock EXCEPT !.free_blocks = Minus(@, 1)]
             /\ frame' = [frame EXCEPT !.i = @ + 1]
             /\ UNCHANGED <<metadata, pc>>
    <3>1. PICK inode \in Inode, k \in Nat :
             /\ inode = frame.inode /\ frame'.inode = inode
             /\ k = frame.i /\ frame'.i = k + 1
      BY <1>0, <2>2 DEF TypeOK, ControlTypeOK, Frame
    <3>2. PICK block \in Block : block = allocate_block /\ block \notin block_bitmap
      BY <2>2, AllocateBlock
    <3>3. pc = "file_data" /\ pc' = "file_data"
      BY <1>21, <2>2 DEF CreateFileData
    <3>4. k \in DirectBlock
      BY <1>0, <1>21, <3>1, SizesAssumption, TaskType, LenProperties
         DEF CreateFileData, BlocksNeeded, Lesser, DirectBlock, TypeOK, ControlTypeOK
    <3>5. inode_table[inode].type = "FILE" /\ k \notin BlockIndices(inode)
      BY <3>1, <3>3 DEF BlockInv, LoopInv
    <3>6. inode_table[inode].blocks[k] = NoBlock
      BY <3>4, <3>5 DEF BlockIndices
    <3>7. /\ inode_table'[inode].blocks =
                 [inode_table[inode].blocks EXCEPT ![k] = block]
          /\ inode_table'[inode].type = inode_table[inode].type
          /\ \A m \in Inode \ {inode} : inode_table'[m] = inode_table[m]
      BY <1>0, <2>2, <3>1, <3>2 DEF TypeOK, RamTypeOK, InodeRecord
    <3>8. /\ Kept
          /\ BlockIndices(inode)' \subseteq BlockIndices(inode) \cup {k}
          /\ BlocksOf(inode)' = BlocksOf(inode) \cup ({block} \ {NoBlock})
      BY <1>0, <2>2, <3>1, <3>2, <3>4, <3>6, <3>7, GainBlock
    <3>9. /\ BlocksOf(frame.inode)' = BlocksOf(inode)'
          /\ BlockIndices(frame.inode)' = BlockIndices(inode)'
      BY <3>1 DEF BlocksOf, BlockIndices
    <3>10. LoopInv'
      BY <3>1, <3>3, <3>5, <3>7, <3>8, <3>9, SizesAssumption
         DEF BlockInv, LoopInv, BlockIndices, DirectBlock
    <3>11. FreeIsBlank'
      BY <3>5, <3>7 DEF FreeIsBlank, BlockInv
    <3>12. /\ superblock'.installed = 1
           /\ d_superblock' = d_superblock /\ d_superblock.installed = 1
      BY <1>0, <2>2, <3>3 DEF TypeOK, RamTypeOK, Superblock, metadata, BlockInv,
         InstalledInv
    <3>13. /\ d_inode_table' = [inode_table' EXCEPT ![inode] = FreeInode]
           /\ SavedMarks' = Marked' \ BlocksOf(inode)'
      <4>1. /\ d_inode_table' = [inode_table EXCEPT ![inode] = FreeInode]
            /\ SavedMarks' = Marked \ BlocksOf(inode)
        BY <2>2, <3>1, <3>3 DEF BlockInv, SavedInv, Building, SavedMarks, metadata
      <4>2. Marked \ BlocksOf(inode) = Marked' \ BlocksOf(inode)'
        BY <2>2, <3>2, <3>8 DEF Marked
      <4> QED
        BY <1>0, <2>2, <3>1, <4>1, <4>2 DEF TypeOK, RamTypeOK
    <3> QED
      BY <3>1, <3>3, <3>8, <3>9, <3>10, <3>11, <3>12, <3>13 DEF SafeStep, InstalledInv,
         SavedInv, Settled, Building
  <2> QED
    BY <1>21, <2>1, <2>2 DEF CreateFileData
<1>22. CASE CreateFileLink
  BY <1>22, Linked DEF CreateFileLink
<1>23. CASE CreateFileSyncInodes
  BY <1>23, InodesSynced DEF CreateFileSyncInodes, Goto, sync_inode_table
<1>24. CASE CreateFileSyncBitmap
  BY <1>24, BitmapSynced DEF CreateFileSyncBitmap, Goto, sync_block_bitmap, Settled
<1>25. CASE CreateFileSyncSuperblock
  <2>1. Kept
    BY <1>0, <1>25, SameBlocks DEF CreateFileSyncSuperblock, ram
  <2>2. pc' \in {"install_dirs", "return"}
    BY <1>25, Returns DEF CreateFileSyncSuperblock
  <2> QED
    BY <1>25, <2>1, <2>2 DEF CreateFileSyncSuperblock, sync_superblock, ram, BlockInv,
       SafeStep, FreeIsBlank, InstalledInv, SavedInv, LoopInv, Settled, Building,
       SavedMarks, Marked
<1>26. CASE DeleteFileEnter
  <2> DEFINE file == find_inode_by_path(task.path)
  <2>1. CASE DeleteReturns("error") /\ UNCHANGED <<ram, disk>>
    BY <1>26, <2>1, Returns, SettledStep DEF DeleteFileEnter, Settled
  <2>2. CASE /\ fs_file_exists(task.path)
             /\ free_inode(file)
             /\ Goto("delete_inodes")
             /\ UNCHANGED metadata
    <3>1. file \in Inode
      BY <2>2, FindType DEF fs_file_exists
    <3> HIDE DEF file
    <3>2. Kept /\ FreeIsBlank' /\ superblock'.installed = superblock.installed
      BY <1>0, <2>2, <3>1, LoseBlocks DEF BlockInv
    <3>3. pc = "delete_file" /\ pc' = "delete_inodes"
      BY <1>26, <2>2 DEF DeleteFileEnter, Goto
    <3>4. d_inode_table' = inode_table
      BY <2>2, <3>3 DEF metadata, BlockInv, SavedInv, Settled
    <3>5. /\ d_inode_table' = [inode_table' EXCEPT ![file] = d_inode_table'[file]]
          /\ inode_table'[file] = FreeInode /\ d_inode_table'[file].type = "FILE"
      <4>1. inode_table[file].type = "FILE"
        BY <2>2 DEF fs_file_exists, file
      <4> QED
        BY <1>0, <2>2, <3>1, <3>4, <4>1 DEF free_inode, TypeOK, RamTypeOK
    <3> QED
      BY <2>2, <3>1, <3>2, <3>3, <3>5 DEF SafeStep, BlockInv, InstalledInv, SavedInv,
         LoopInv, Settled, Building, metadata
  <2> QED
    BY <1>26, <2>1, <2>2 DEF DeleteFileEnter
<1>27. CASE DeleteSyncInodes
  BY <1>27, InodesSynced DEF DeleteSyncInodes, Goto, sync_inode_table
<1>28. CASE DeleteSyncBitmap
  BY <1>28, Returns, BitmapSynced DEF DeleteSyncBitmap, sync_block_bitmap, Settled
<1> QED
  BY <1>1, <1>2, <1>3, <1>4, <1>5, <1>6, <1>7, <1>8, <1>9, <1>10, <1>11, <1>12,
     <1>13, <1>14, <1>15, <1>16, <1>17, <1>18, <1>19, <1>20, <1>21, <1>22,
     <1>23, <1>24, <1>25, <1>26, <1>27, <1>28, CallsAssumption
     DEF Step, Next, Kernel, User, Boot, Install, CreateDir, CreateFile, DeleteFile

\* The machine is off after its installation only, if every halt was ordered.
LEMMA WholeNext == BlockInv /\ Whole /\ [Step]_vars => Whole'
<1> SUFFICES ASSUME BlockInv, Whole, [Step]_vars, pc' = "off"
             PROVE  d_superblock'.installed = 1
  BY BlockNext DEF Whole
<1>1. CASE InstallFinish
  BY <1>1 DEF InstallFinish, sync_superblock, BlockInv, InstalledInv
<1>2. CASE SwitchOff
  BY <1>2 DEF SwitchOff, disk, metadata, BlockInv, InstalledInv
<1>3. CASE UNCHANGED vars
  BY <1>3 DEF vars, disk, metadata, control, Whole
<1>4. CASE Step /\ ~ InstallFinish /\ ~ SwitchOff
  <2>1. \A request \in Request : Call(request) => pc' # "off"
    BY DEF Call, Goto, Request
  <2> QED
    BY <1>4, <2>1, CallsAssumption
       DEF Step, Next, Kernel, User, Boot, Install, CreateDir, CreateFile, DeleteFile,
       BootInstalled, InstallRoot, InstallSyncSuperblock, InstallSyncInodes,
       InstallSyncBitmap, InstallNextDir, PowerOn, Return, CreateDirEnter,
       CreateDirAlloc, CreateDirLink, CreateDirSyncInodes, CreateDirSyncBitmap,
       CreateFileEnter, CreateFileParent, CreateFileAlloc, CreateFileData,
       CreateFileLink, CreateFileSyncInodes, CreateFileSyncBitmap,
       CreateFileSyncSuperblock, DeleteFileEnter, DeleteSyncInodes, DeleteSyncBitmap,
       Goto, Leave, CreateDirReturnsOk, DeleteReturns, LinkEntry, GiveBack
<1> QED
  BY <1>1, <1>2, <1>3, <1>4

(***************************************************************************)
(* The bitmap marks exactly the blocks the inodes hold and no block is     *)
(* held twice, at every step of every call, on every error path, after     *)
(* every reboot, for tables of every size.                                 *)
(***************************************************************************)
THEOREM BlocksOwned == Spec => []BlockOwnership
<1>1. BlockInv /\ Whole => BlockOwnership
  BY OwnershipParts DEF BlockInv, Whole
<1> QED
  BY <1>1, BlockInit, BlockNext, WholeNext, PTL DEF Spec, Step

(***************************************************************************)
(* Whenever the user can reboot or switch off, the tables on disk are      *)
(* those in RAM, although no call ends with a sync of its own on its error *)
(* paths.                                                                  *)
(***************************************************************************)
THEOREM SavedAtRest == Spec => []SyncedAtRest
<1>1. BlockInv /\ Whole => SyncedAtRest
  BY DEF BlockInv, Whole, SavedInv, InstalledInv, Settled, SavedMarks, Marked, SyncedAtRest
<1> QED
  BY <1>1, BlockInit, BlockNext, WholeNext, PTL DEF Spec, Step

(***************************************************************************)
(* While a call runs at most one inode differs from its image on disk.     *)
(***************************************************************************)
THEOREM OneDirty == Spec => []OneDirtyInode
<1>1. BlockInv => OneDirtyInode
  <2> SUFFICES ASSUME BlockInv, pc \notin {"boot", "off"}
               PROVE  \E k \in Inode : \A i \in Inode \ {k} :
                          inode_table[i] = d_inode_table[i]
    BY DEF OneDirtyInode
  <2>1. TypeOK
    BY DEF BlockInv, TypeInv
  <2>2. CASE pc \in Building
    BY <2>1, <2>2 DEF BlockInv, SavedInv, TypeOK, RamTypeOK, ControlTypeOK, Frame
  <2>3. CASE pc \in {"install_superblock", "install_inodes"}
    BY <2>1, <2>3, ConstantTypes DEF BlockInv, SavedInv, TypeOK, RamTypeOK, Root
  <2>4. CASE pc = "delete_inodes"
    BY <2>1, <2>4 DEF BlockInv, SavedInv, TypeOK, RamTypeOK
  <2>5. CASE pc \in Settled \cup {"install_bitmap", "dir_bitmap", "file_bitmap",
                                  "delete_bitmap"}
    BY <2>5, ConstantTypes DEF BlockInv, SavedInv
  <2> QED
    BY <2>1, <2>2, <2>3, <2>4, <2>5 DEF TypeOK, ControlTypeOK, Label, Settled, Building
<1> QED
  BY <1>1, BlockInit, BlockNext, PTL DEF Spec, Step

-----------------------------------------------------------------------------
(* The strengthening of CountersExact that makes it inductive              *)

Exact ==
    /\ superblock.free_inodes = Cardinality(FreeInodes)
    /\ superblock.free_blocks = Cardinality(FreeBlocks)

\* The machine has been switched on once: it is installing, or was.
FirstBoot ==
    boots = 1 =>
        /\ pc = "boot" => d_superblock.installed # 1
        /\ pc \notin {"boot", "off"} => task.op = "install"
        /\ pc \notin {"idle", "return"}

\* What the first reboot of the installed system will load.
Fresh == (pc = "off" /\ boots = 1) \/ (pc = "boot" /\ boots = 2)

\* fs_install reads back the superblock it has just written.
Reloaded == pc \in {"install_inodes", "install_bitmap"} => d_superblock = superblock

\* An inode that may be given back is in use.
MadeInv == pc = "dir_link" => inode_table[frame.inode].type = "DIR"

Counting ==
    /\ boots >= 1
    /\ FirstBoot
    /\ Reloaded
    /\ MadeInv
    /\ (pc \notin {"boot", "off"} /\ boots <= 2) => Exact
    /\ Fresh => /\ Exact
                /\ d_superblock = superblock
                /\ d_block_bitmap = block_bitmap

CountInv == BlockInv /\ Counting

-----------------------------------------------------------------------------
(* Counting inodes and blocks                                              *)

LEMMA InodeSets ==
    ASSUME NEW S \in SUBSET Inode
    PROVE  /\ IsFiniteSet(S)
           /\ Cardinality(S) \in 0 .. FS_MAX_INODES
<1>1. IsFiniteSet(Inode) /\ Cardinality(Inode) = FS_MAX_INODES
  BY SizesAssumption, FS_Interval DEF Inode
<1> QED
  BY <1>1, FS_Subset, FS_CardinalityType, SizesAssumption

LEMMA BlockSets ==
    ASSUME NEW S \in SUBSET Block
    PROVE  /\ IsFiniteSet(S)
           /\ Cardinality(S) \in 0 .. FS_MAX_BLOCKS
<1>1. IsFiniteSet(Block) /\ Cardinality(Block) = FS_MAX_BLOCKS
  BY SizesAssumption, FS_Interval DEF Block
<1> QED
  BY <1>1, FS_Subset, FS_CardinalityType, SizesAssumption

\* A counter below 2^32 that is taken from or added to does not wrap around.
LEMMA NoWrap ==
    ASSUME NEW c \in Nat, NEW n \in Nat
    PROVE  /\ c + n < WORD => Plus(c, n) = c + n
           /\ (n <= c /\ c < WORD) => Minus(c, n) = c - n
<1>1. WORD \in Nat \ {0}
  BY SizesAssumption
<1>2. \A k \in Nat : k < WORD => k % WORD = k
  BY <1>1
<1>3. c + n \in Nat /\ (n <= c => c - n \in Nat /\ c - n <= c)
  OBVIOUS
<1>4. c + n < WORD => (c + n) % WORD = c + n
  BY <1>2, <1>3
<1>5. (n <= c /\ c < WORD) => c - n < WORD
  BY <1>1
<1>6. (n <= c /\ c < WORD) => (c - n) % WORD = c - n
  BY <1>2, <1>3, <1>5
<1> QED
  BY <1>4, <1>6 DEF Plus, Minus

\* One element less, one element more.
LEMMA OneLess ==
    ASSUME NEW S, IsFiniteSet(S), NEW x \in S
    PROVE  Cardinality(S \ {x}) = Cardinality(S) - 1 /\ Cardinality(S) >= 1
<1>1. Cardinality(S) \in Nat /\ Cardinality(S) # 0
  BY FS_CardinalityType, FS_EmptySet
<1> QED
  BY <1>1, FS_RemoveElement

LEMMA OneMore ==
    ASSUME NEW S, IsFiniteSet(S), NEW x, x \notin S
    PROVE  Cardinality(S \cup {x}) = Cardinality(S) + 1
BY FS_AddElement

\* free_inode counts one block for every direct block number that is not 0:
\* as no block is held twice, that is the number of blocks it gives back.
LEMMA HeldOnce ==
    ASSUME Owned, NEW i \in Inode
    PROVE  /\ IsFiniteSet(BlocksOf(i))
           /\ Cardinality(BlocksOf(i)) = Cardinality(BlockIndices(i))
<1> DEFINE g == [j \in BlockIndices(i) |-> inode_table[i].blocks[j]]
<1>1. IsFiniteSet(BlockIndices(i))
  <2>1. IsFiniteSet(DirectBlock)
    BY SizesAssumption, FS_Interval DEF DirectBlock
  <2>2. BlockIndices(i) \in SUBSET DirectBlock
    BY DEF BlockIndices
  <2> QED
    BY <2>1, <2>2, FS_Subset
<1>2. g \in Bijection(BlockIndices(i), BlocksOf(i))
  <2>1. g \in [BlockIndices(i) -> BlocksOf(i)]
    BY DEF BlocksOf
  <2>2. \A a, b \in BlockIndices(i) : g[a] = g[b] => a = b
    BY DEF Owned
  <2>3. \A t \in BlocksOf(i) : \E s \in BlockIndices(i) : g[s] = t
    BY DEF BlocksOf
  <2> HIDE DEF g
  <2> QED
    BY <2>1, <2>2, <2>3, Fun_IsBij
<1>3. ExistsBijection(BlockIndices(i), BlocksOf(i))
  BY <1>2, Fun_ExistsBij
<1> QED
  BY <1>1, <1>3, FS_Bijection

-----------------------------------------------------------------------------
(* The ways a step changes the counters                                    *)

\* allocate_inode's caller marks the inode as used and counts one less.
LEMMA InodeTaken ==
    ASSUME TypeOK, Exact, NEW i \in Inode, inode_table[i].type = "FREE",
           inode_table'[i].type # "FREE",
           \A k \in Inode \ {i} : inode_table'[k] = inode_table[k]
    PROVE  Minus(superblock.free_inodes, 1) = Cardinality(FreeInodes')
<1>1. i \in FreeInodes /\ FreeInodes \in SUBSET Inode
  BY DEF FreeInodes
<1>2. FreeInodes' = FreeInodes \ {i}
  BY DEF FreeInodes
<1>3. Cardinality(FreeInodes) \in 0 .. FS_MAX_INODES /\ IsFiniteSet(FreeInodes)
  BY <1>1, InodeSets
<1>4. Cardinality(FreeInodes) >= 1
      /\ Cardinality(FreeInodes \ {i}) = Cardinality(FreeInodes) - 1
  BY <1>1, <1>3, OneLess
<1> QED
  BY <1>2, <1>3, <1>4, NoWrap, SizesAssumption DEF Exact

\* mark_block_used.
LEMMA BlockTaken ==
    ASSUME TypeOK, Exact, NEW b \in Block, b \notin block_bitmap,
           block_bitmap' = block_bitmap \cup {b}
    PROVE  Minus(superblock.free_blocks, 1) = Cardinality(FreeBlocks')
<1>1. b \in FreeBlocks /\ FreeBlocks \in SUBSET Block
  BY DEF FreeBlocks
<1>2. FreeBlocks' = FreeBlocks \ {b}
  BY DEF FreeBlocks
<1>3. Cardinality(FreeBlocks) \in 0 .. FS_MAX_BLOCKS /\ IsFiniteSet(FreeBlocks)
  BY <1>1, BlockSets
<1>4. Cardinality(FreeBlocks) >= 1
      /\ Cardinality(FreeBlocks \ {b}) = Cardinality(FreeBlocks) - 1
  BY <1>1, <1>3, OneLess
<1> QED
  BY <1>2, <1>3, <1>4, NoWrap, SizesAssumption DEF Exact

\* free_inode of an inode in use.
LEMMA InodeGivenBack ==
    ASSUME TypeOK, Owned, Exact, NEW i \in Inode,
           inode_table[i].type # "FREE", free_inode(i)
    PROVE  Exact'
<1>1. /\ inode_table'[i].type = "FREE"
      /\ \A k \in Inode \ {i} : inode_table'[k] = inode_table[k]
      /\ block_bitmap' = block_bitmap \ BlocksOf(i)
      /\ superblock'.free_inodes = Plus(superblock.free_inodes, 1)
      /\ superblock'.free_blocks =
             Plus(superblock.free_blocks, Cardinality(BlockIndices(i)))
  BY DEF free_inode, TypeOK, RamTypeOK, Superblock, FreeInode
<1>2. superblock'.free_inodes = Cardinality(FreeInodes')
  <2>1. FreeInodes' = FreeInodes \cup {i} /\ i \notin FreeInodes
    BY <1>1 DEF FreeInodes
  <2>2. FreeInodes \in SUBSET Inode /\ FreeInodes' \in SUBSET Inode
    BY DEF FreeInodes
  <2>3. IsFiniteSet(FreeInodes) /\ Cardinality(FreeInodes) \in Nat
        /\ Cardinality(FreeInodes') \in 0 .. FS_MAX_INODES
    BY <2>2, InodeSets
  <2>4. Cardinality(FreeInodes') = Cardinality(FreeInodes) + 1
    BY <2>1, <2>3, OneMore
  <2> QED
    BY <1>1, <2>3, <2>4, NoWrap, SizesAssumption DEF Exact
<1>3. superblock'.free_blocks = Cardinality(FreeBlocks')
  <2>1. BlocksOf(i) \subseteq block_bitmap /\ BlocksOf(i) \subseteq Block
    <3>1. BlocksOf(i) \subseteq block_bitmap
      BY DEF Owned
    <3> QED
      BY <3>1 DEF TypeOK, RamTypeOK
  <2>2. FreeBlocks' = FreeBlocks \cup BlocksOf(i) /\ FreeBlocks \cap BlocksOf(i) = {}
    BY <1>1, <2>1 DEF FreeBlocks
  <2>3. FreeBlocks \in SUBSET Block /\ FreeBlocks' \in SUBSET Block
    BY DEF FreeBlocks
  <2>4. IsFiniteSet(FreeBlocks) /\ Cardinality(FreeBlocks) \in Nat
        /\ Cardinality(FreeBlocks') \in 0 .. FS_MAX_BLOCKS
    BY <2>3, BlockSets
  <2>5. IsFiniteSet(BlocksOf(i)) /\ Cardinality(BlocksOf(i)) \in Nat
        /\ Cardinality(BlocksOf(i)) = Cardinality(BlockIndices(i))
    BY HeldOnce, FS_CardinalityType
  <2>6. Cardinality(FreeBlocks') = Cardinality(FreeBlocks) + Cardinality(BlocksOf(i))
    <3>1. Cardinality(FreeBlocks \cup BlocksOf(i)) =
              Cardinality(FreeBlocks) + Cardinality(BlocksOf(i)) - Cardinality({})
      BY <2>2, <2>4, <2>5, FS_Union
    <3> QED
      BY <2>2, <2>4, <2>5, <3>1, FS_EmptySet
  <2> QED
    BY <1>1, <2>4, <2>5, <2>6, NoWrap, SizesAssumption DEF Exact
<1> QED
  BY <1>2, <1>3 DEF Exact

\* Neither the tables nor the superblock in RAM change.
LEMMA SameCounts ==
    ASSUME Exact, inode_table' = inode_table, block_bitmap' = block_bitmap,
           superblock' = superblock
    PROVE  Exact'
BY DEF Exact, FreeInodes, FreeBlocks

-----------------------------------------------------------------------------
(* The invariant is inductive                                              *)

LEMMA CountInit == Init => CountInv
BY BlockInit DEF Init, CountInv, Counting, FirstBoot, Reloaded, MadeInv, Fresh, ZeroSuperblock

\* A step of a call that changes neither copy's tables nor the superblock.
LEMMA CallStep ==
    ASSUME CountInv, UNCHANGED <<ram, boots>>,
           pc \notin {"boot", "off", "idle", "return", "install_superblock",
                       "install_inodes"},
           pc' \notin {"boot", "off", "idle", "install_inodes", "install_bitmap",
                        "dir_link"},
           pc' = "return" => task.op # "install",
           task' = task
    PROVE  Counting'
BY SameCounts DEF CountInv, Counting, FirstBoot, Reloaded, MadeInv, Fresh, ram

\* The error path of a half-made file or directory.
LEMMA CountsGivenBack ==
    ASSUME CountInv, pc \in {"dir_link", "file_data"}, GiveBack
    PROVE  Counting'
<1>1. TypeOK /\ Owned /\ frame.inode \in Inode
  BY DEF CountInv, BlockInv, TypeInv, TypeOK, ControlTypeOK, Frame
<1>2. inode_table[frame.inode].type # "FREE"
  BY DEF CountInv, Counting, MadeInv, BlockInv, LoopInv
<1>3. free_inode(frame.inode) /\ boots' = boots /\ task' = task
      /\ \/ task.op = "install" /\ pc' = "install_dirs"
         \/ task.op # "install" /\ pc' = "return"
  BY DEF GiveBack, Leave, Goto
<1>4. Exact => Exact'
  BY <1>1, <1>2, <1>3, InodeGivenBack
<1> QED
  BY <1>3, <1>4 DEF CountInv, Counting, FirstBoot, Reloaded, MadeInv, Fresh

LEMMA CountsLinked ==
    ASSUME CountInv, NEW name, NEW next, LinkEntry(name, next),
           pc \in {"dir_link", "file_data"}, next \in {"dir_inodes", "file_inodes"}
    PROVE  Counting'
<1>1. CASE GiveBack
  BY <1>1, CountsGivenBack
<1>2. CASE Goto(next) /\ UNCHANGED <<ram, metadata, task, frame, result, boots>>
  BY <1>2, CallStep DEF Goto
<1> QED
  BY <1>1, <1>2 DEF LinkEntry

LEMMA CountNext == CountInv /\ [Step]_vars => CountInv'
<1> SUFFICES ASSUME CountInv, [Step]_vars PROVE Counting'
  BY BlockNext DEF CountInv
<1> USE DEF CountInv
<1>0. BlockInv /\ TypeOK /\ Owned /\ Counting /\ boots \in Nat
  BY DEF BlockInv, TypeInv, TypeOK, ControlTypeOK
<1>1. CASE UNCHANGED vars
  <2>1. Exact => Exact'
    BY <1>1, SameCounts DEF vars, ram
  <2> QED
    BY <1>0, <1>1, <2>1 DEF vars, ram, disk, metadata, control, Counting, FirstBoot,
       Reloaded, MadeInv, Fresh
<1>2. CASE BootInstalled
  <2>1. /\ pc = "boot" /\ pc' = "idle" /\ boots' = boots
        /\ d_superblock.installed = 1 /\ superblock' = d_superblock
        /\ inode_table' = d_inode_table /\ block_bitmap' = d_block_bitmap
    BY <1>2 DEF BootInstalled, Goto
  <2>2. d_inode_table = inode_table
    BY <2>1 DEF BlockInv, SavedInv, Settled
  <2>3. boots # 1
    BY <1>0, <2>1 DEF Counting, FirstBoot
  <2>4. boots <= 2 => Exact'
    BY <1>0, <2>1, <2>2, <2>3, SameCounts DEF Counting, Fresh
  <2> QED
    BY <1>0, <2>1, <2>3, <2>4 DEF Counting, FirstBoot, Reloaded, MadeInv, Fresh
<1>3. CASE InstallRoot
  <2>1. /\ pc = "boot" /\ pc' = "install_superblock" /\ boots' = boots
        /\ task'.op = "install"
        /\ superblock' = [installed   |-> 1,
                          free_inodes |-> Minus(FS_MAX_INODES, 1),
                          free_blocks |-> Minus(FS_MAX_BLOCKS, 1)]
        /\ \A i \in Inode : inode_table'[i].type = IF i = Root THEN "DIR" ELSE "FREE"
        /\ block_bitmap' = {1}
    BY <1>3 DEF InstallRoot, Goto, NoTask, FreeInode
  <2>2. IsFiniteSet(Inode) /\ Cardinality(Inode) = FS_MAX_INODES
    BY SizesAssumption, FS_Interval DEF Inode
  <2>3. IsFiniteSet(Block) /\ Cardinality(Block) = FS_MAX_BLOCKS
    BY SizesAssumption, FS_Interval DEF Block
  <2>4. FreeInodes' = Inode \ {0} /\ FreeBlocks' = Block \ {1}
    BY <2>1 DEF FreeInodes, FreeBlocks, Root
  <2>5. Cardinality(FreeInodes') = FS_MAX_INODES - 1
    BY <2>2, <2>4, OneLess, ConstantTypes
  <2>6. Cardinality(FreeBlocks') = FS_MAX_BLOCKS - 1
    BY <2>3, <2>4, OneLess, ConstantTypes
  <2>7. Minus(FS_MAX_INODES, 1) = FS_MAX_INODES - 1
        /\ Minus(FS_MAX_BLOCKS, 1) = FS_MAX_BLOCKS - 1
    BY NoWrap, SizesAssumption
  <2>8. Exact'
    BY <2>1, <2>5, <2>6, <2>7 DEF Exact
  <2> QED
    BY <1>0, <2>1, <2>8 DEF Counting, FirstBoot, Reloaded, MadeInv, Fresh
<1>4. CASE InstallSyncSuperblock
  <2>1. Exact => Exact'
    BY <1>4, SameCounts DEF InstallSyncSuperblock, ram
  <2> QED
    BY <1>0, <1>4, <2>1 DEF InstallSyncSuperblock, sync_superblock, Goto, ram, Counting,
       FirstBoot, Reloaded, MadeInv, Fresh
<1>5. CASE InstallSyncInodes
  <2>1. Exact => Exact'
    BY <1>5, SameCounts DEF InstallSyncInodes, ram
  <2> QED
    BY <1>0, <1>5, <2>1 DEF InstallSyncInodes, Goto, ram, Counting,
       FirstBoot, Reloaded, MadeInv, Fresh
<1>6. CASE InstallSyncBitmap
  <2>1. /\ pc = "install_bitmap" /\ pc' = "install_dirs" /\ boots' = boots
        /\ task' = task
        /\ superblock' = d_superblock /\ inode_table' = d_inode_table
        /\ block_bitmap' = block_bitmap
    BY <1>6 DEF InstallSyncBitmap, Goto, sync_block_bitmap
  <2>2. d_inode_table = inode_table /\ d_superblock = superblock
    BY <1>0, <2>1 DEF BlockInv, SavedInv, Counting, Reloaded
  <2>3. Exact => Exact'
    BY <2>1, <2>2, SameCounts
  <2> QED
    BY <1>0, <2>1, <2>3 DEF Counting, FirstBoot, Reloaded, MadeInv, Fresh
<1>7. CASE InstallNextDir
  BY <1>7, CallStep DEF InstallNextDir, Goto
<1>8. CASE InstallFinish
  <2>1. /\ pc = "install_dirs" /\ pc' = "off" /\ boots' = boots
        /\ d_superblock' = superblock /\ d_block_bitmap' = block_bitmap
        /\ UNCHANGED ram
    BY <1>8 DEF InstallFinish, Goto, sync_superblock, sync_block_bitmap
  <2>2. Exact => Exact'
    BY <2>1, SameCounts DEF ram
  <2> QED
    BY <1>0, <2>1, <2>2 DEF ram, Counting, FirstBoot, Reloaded, MadeInv, Fresh
<1>9. CASE PowerOn
  <2>1. /\ pc = "off" /\ pc' = "boot" /\ boots' = boots + 1
        /\ UNCHANGED <<ram, disk>>
    BY <1>9 DEF PowerOn, Goto
  <2>2. Exact => Exact'
    BY <2>1, SameCounts DEF ram
  <2> QED
    BY <1>0, <2>1, <2>2 DEF ram, disk, metadata, Counting, FirstBoot, Reloaded,
       MadeInv, Fresh
<1>10. CASE SwitchOff
  <2>1. boots >= 2
    BY <1>0, <1>10 DEF SwitchOff, Counting, FirstBoot
  <2> QED
    BY <1>0, <1>10, <2>1 DEF SwitchOff, Goto, Counting, FirstBoot, Reloaded, MadeInv,
       Fresh
<1>11. ASSUME NEW request \in Request, Call(request) PROVE Counting'
  <2>1. request.op \in {"create_dir", "create_file", "delete_file"}
    BY DEF Request
  <2>2. boots >= 2
    BY <1>0, <1>11 DEF Call, Counting, FirstBoot
  <2>3. Exact => Exact'
    BY <1>11, SameCounts DEF Call, ram
  <2> QED
    BY <1>0, <1>11, <2>1, <2>2, <2>3 DEF Call, Goto, Counting, FirstBoot, Reloaded,
       MadeInv, Fresh
<1>12. CASE Return
  <2>1. boots >= 2
    BY <1>0, <1>12 DEF Return, Counting, FirstBoot
  <2>2. Exact => Exact'
    BY <1>12, SameCounts DEF Return, ram
  <2> QED
    BY <1>0, <1>12, <2>1, <2>2 DEF Return, Goto, Counting, FirstBoot, Reloaded, MadeInv,
       Fresh
<1>13. CASE CreateDirEnter
  BY <1>13, CallStep DEF CreateDirEnter, CreateDirReturnsOk, Leave, Goto
<1>14. CASE CreateDirAlloc
  <2>1. CASE Leave("error") /\ UNCHANGED <<ram, disk>>
    BY <1>14, <2>1, CallStep DEF CreateDirAlloc, Leave, Goto
  <2>2. CASE /\ allocate_inode # NoInode /\ allocate_block # NoFreeBlock
             /\ inode_table' = [inode_table EXCEPT ![allocate_inode] =
                    [FreeInode EXCEPT !.type = "DIR", !.blocks[0] = allocate_block]]
             /\ block_bitmap' = block_bitmap \cup {allocate_block}
             /\ superblock' = [superblock EXCEPT
                    !.free_inodes = Minus(@, 1), !.free_blocks = Minus(@, 1)]
             /\ frame'.inode = allocate_inode
             /\ Goto("dir_link")
             /\ UNCHANGED <<task, boots>>
    <3>1. PICK inode \in Inode, block \in Block :
             /\ inode = allocate_inode /\ inode_table[inode].type = "FREE"
             /\ block = allocate_block /\ block \notin block_bitmap
      BY <2>2, AllocateInode, AllocateBlock
    <3>2. /\ inode_table'[inode].type = "DIR"
          /\ \A k \in Inode \ {inode} : inode_table'[k] = inode_table[k]
      BY <1>0, <2>2, <3>1 DEF FreeInode, TypeOK, RamTypeOK
    <3>3. /\ superblock'.free_inodes = Minus(superblock.free_inodes, 1)
          /\ superblock'.free_blocks = Minus(superblock.free_blocks, 1)
      <4>1. superblock \in Superblock
        BY <1>0 DEF TypeOK, RamTypeOK
      <4> HIDE DEF CountInv
      <4> QED
        BY <2>2, <4>1 DEF Superblock
    <3>4. Exact => Exact'
      <4>1. Exact => Minus(superblock.free_inodes, 1) = Cardinality(FreeInodes')
        BY <1>0, <3>1, <3>2, InodeTaken
      <4>2. Exact => Minus(superblock.free_blocks, 1) = Cardinality(FreeBlocks')
        BY <1>0, <2>2, <3>1, BlockTaken
      <4> QED
        BY <3>3, <4>1, <4>2 DEF Exact
    <3>5. pc = "dir_alloc" /\ pc' = "dir_link"
      BY <1>14, <2>2 DEF CreateDirAlloc, Goto
    <3> QED
      BY <1>0, <2>2, <3>1, <3>2, <3>4, <3>5 DEF Counting, FirstBoot, Reloaded, MadeInv,
         Fresh
  <2> QED
    BY <1>0, <1>14, <2>1, <2>2 DEF CreateDirAlloc, TypeOK, ControlTypeOK, Frame
<1>15. CASE CreateDirLink
  BY <1>15, CountsLinked DEF CreateDirLink
<1>16. CASE CreateDirSyncInodes
  BY <1>16, CallStep DEF CreateDirSyncInodes, Goto
<1>17. CASE CreateDirSyncBitmap
  BY <1>17, CallStep DEF CreateDirSyncBitmap, CreateDirReturnsOk, Leave, Goto
<1>18. CASE CreateFileEnter
  BY <1>18, CallStep DEF CreateFileEnter, Leave, Goto
<1>19. CASE CreateFileParent
  BY <1>19, CallStep DEF CreateFileParent, Leave, Goto
<1>20. CASE CreateFileAlloc
  <2>1. CASE Leave("error") /\ UNCHANGED <<ram, disk>>
    BY <1>20, <2>1, CallStep DEF CreateFileAlloc, Leave, Goto
  <2>2. CASE /\ allocate_inode # NoInode
             /\ inode_table' = [inode_table EXCEPT ![allocate_inode] =
                    [FreeInode EXCEPT !.type = "FILE", !.size = Len(task.content)]]
             /\ superblock' = [superblock EXCEPT !.free_inodes = Minus(@, 1)]
             /\ Goto("file_data")
             /\ UNCHANGED <<block_bitmap, task, boots>>
    <3>1. PICK inode \in Inode :
             inode = allocate_inode /\ inode_table[inode].type = "FREE"
      BY <2>2, AllocateInode
    <3>2. /\ inode_table'[inode].type = "FILE"
          /\ \A k \in Inode \ {inode} : inode_table'[k] = inode_table[k]
      BY <1>0, <2>2, <3>1 DEF FreeInode, TypeOK, RamTypeOK
    <3>3. /\ superblock'.free_inodes = Minus(superblock.free_inodes, 1)
          /\ superblock'.free_blocks = superblock.free_blocks
      <4>1. superblock \in Superblock
        BY <1>0 DEF TypeOK, RamTypeOK
      <4> QED
        BY <2>2, <4>1 DEF Superblock
    <3>4. Exact => Exact'
      <4>1. Exact => Minus(superblock.free_inodes, 1) = Cardinality(FreeInodes')
        BY <1>0, <3>1, <3>2, InodeTaken
      <4>2. FreeBlocks' = FreeBlocks
        BY <2>2 DEF FreeBlocks
      <4> QED
        BY <3>3, <4>1, <4>2 DEF Exact
    <3>5. pc = "file_alloc" /\ pc' = "file_data"
      BY <1>20, <2>2 DEF CreateFileAlloc, Goto
    <3> QED
      BY <1>0, <2>2, <3>4, <3>5 DEF Counting, FirstBoot, Reloaded, MadeInv, Fresh
  <2> QED
    BY <1>20, <2>1, <2>2 DEF CreateFileAlloc
<1>21. CASE CreateFileData
  <2>1. CASE GiveBack
    BY <1>21, <2>1, CountsGivenBack DEF CreateFileData
  <2>2. CASE /\ allocate_block # NoFreeBlock
             /\ inode_table' = [inode_table EXCEPT
                    ![frame.inode].blocks[frame.i] = allocate_block]
             /\ block_bitmap' = block_bitmap \cup {allocate_block}
             /\ superblock' = [superblock EXCEPT !.free_blocks = Minus(@, 1)]
             /\ UNCHANGED <<pc, task, boots>>
    <3>1. PICK block \in Block : block = allocate_block /\ block \notin block_bitmap
      BY <2>2, AllocateBlock
    <3>2. \A k \in Inode : inode_table'[k].type = inode_table[k].type
      BY <1>0, <2>2 DEF TypeOK, RamTypeOK, InodeRecord
    <3>3. /\ superblock'.free_blocks = Minus(superblock.free_blocks, 1)
          /\ superblock'.free_inodes = superblock.free_inodes
      <4>1. superblock \in Superblock
        BY <1>0 DEF TypeOK, RamTypeOK
      <4> QED
        BY <2>2, <4>1 DEF Superblock
    <3>4. Exact => Exact'
      <4>1. Exact => Minus(superblock.free_blocks, 1) = Cardinality(FreeBlocks')
        BY <1>0, <2>2, <3>1, BlockTaken
      <4>2. FreeInodes' = FreeInodes
        BY <3>2 DEF FreeInodes
      <4> QED
        BY <3>3, <4>1, <4>2 DEF Exact
    <3>5. pc = "file_data" /\ pc' = "file_data"
      BY <1>21, <2>2 DEF CreateFileData
    <3> QED
      BY <1>0, <2>2, <3>4, <3>5 DEF Counting, FirstBoot, Reloaded, MadeInv, Fresh
  <2> QED
    BY <1>21, <2>1, <2>2 DEF CreateFileData
<1>22. CASE CreateFileLink
  BY <1>22, CountsLinked DEF CreateFileLink
<1>23. CASE CreateFileSyncInodes
  BY <1>23, CallStep DEF CreateFileSyncInodes, Goto
<1>24. CASE CreateFileSyncBitmap
  BY <1>24, CallStep DEF CreateFileSyncBitmap, Goto
<1>25. CASE CreateFileSyncSuperblock
  BY <1>25, CallStep DEF CreateFileSyncSuperblock, Leave, Goto
<1>26. CASE DeleteFileEnter
  <2> DEFINE file == find_inode_by_path(task.path)
  <2>1. CASE DeleteReturns("error") /\ UNCHANGED <<ram, disk>>
    BY <1>26, <2>1, CallStep DEF DeleteFileEnter, DeleteReturns, Leave, Goto
  <2>2. CASE /\ fs_file_exists(task.path)
             /\ free_inode(file)
             /\ Goto("delete_inodes")
             /\ UNCHANGED <<task, boots>>
    <3>1. file \in Inode /\ inode_table[file].type # "FREE"
      BY <2>2, FindType DEF fs_file_exists
    <3> HIDE DEF file
    <3>2. Exact => Exact'
      BY <1>0, <2>2, <3>1, InodeGivenBack
    <3>3. pc = "delete_file" /\ pc' = "delete_inodes"
      BY <1>26, <2>2 DEF DeleteFileEnter, Goto
    <3> QED
      BY <1>0, <2>2, <3>2, <3>3 DEF Counting, FirstBoot, Reloaded, MadeInv, Fresh
  <2> QED
    BY <1>26, <2>1, <2>2 DEF DeleteFileEnter
<1>27. CASE DeleteSyncInodes
  BY <1>27, CallStep DEF DeleteSyncInodes, Goto
<1>28. CASE DeleteSyncBitmap
  BY <1>28, CallStep DEF DeleteSyncBitmap, DeleteReturns, Leave, Goto
<1> QED
  BY <1>1, <1>2, <1>3, <1>4, <1>5, <1>6, <1>7, <1>8, <1>9, <1>10, <1>11, <1>12,
     <1>13, <1>14, <1>15, <1>16, <1>17, <1>18, <1>19, <1>20, <1>21, <1>22,
     <1>23, <1>24, <1>25, <1>26, <1>27, <1>28, CallsAssumption
     DEF Step, Next, Kernel, User, Boot, Install, CreateDir, CreateFile, DeleteFile

(***************************************************************************)
(* superblock.free_inodes and free_blocks count the free inodes and blocks *)
(* exactly through the installation and the first session after it, on     *)
(* every path of the six functions that keep them.                         *)
(***************************************************************************)
THEOREM CountersCount == Spec => []CountersExact
<1>1. CountInv => CountersExact
  BY DEF CountInv, Counting, Exact, CountersExact
<1> QED
  BY <1>1, CountInit, CountNext, PTL DEF Spec, Step

=============================================================================
