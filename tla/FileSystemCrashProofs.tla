------------------------- MODULE FileSystemCrashProofs -------------------------
(***************************************************************************)
(* Theorems about FileSystemCrash: what a power failure may leave on the   *)
(* disk, for every size of the tables, every set of calls and any number   *)
(* of failures.                                                            *)
(***************************************************************************)
EXTENDS FileSystemCrash, FileSystemPathProofs

-----------------------------------------------------------------------------
(* The disk as a boot would find it                                        *)

DiskBlockIndices(i) == {j \in DirectBlock : d_inode_table[i].blocks[j] # NoBlock}
DiskBlocksOf(i) == {d_inode_table[i].blocks[j] : j \in DiskBlockIndices(i)}

\* Owned, of the images.
DiskOwned ==
    /\ \A i \in Inode : DiskBlocksOf(i) \subseteq d_block_bitmap
    /\ \A i, j \in Inode : i # j => DiskBlocksOf(i) \cap DiskBlocksOf(j) = {}
    /\ \A i \in Inode : \A j, k \in DiskBlockIndices(i) :
           d_inode_table[i].blocks[j] = d_inode_table[i].blocks[k] => j = k

\* Where a deletion, or no call at all, can be.
TaskInv ==
    /\ task.op = "none" => pc \in {"boot", "off", "idle"}
    /\ task.op = "delete_file" =>
           pc \in {"delete_file", "delete_inodes", "delete_bitmap", "return"}

\* While a deletion is on its way to the disk, what is there is sound.
DeletedInv ==
    /\ pc = "delete_inodes" => DiskOwned
    /\ pc \in {"delete_inodes", "delete_bitmap"} => Marked \subseteq SavedMarks

\* What holds as long as every failure found no call running, or a deletion.
LeakInv == LinkInv /\ TaskInv /\ DeletedInv
CrashInv == interrupted.op \in Harmless => LeakInv

LEMMA SavedOwned ==
    ASSUME Owned, d_inode_table = inode_table, Marked \subseteq SavedMarks
    PROVE  DiskOwned
<1>1. \A i \in Inode : /\ DiskBlockIndices(i) = BlockIndices(i)
                       /\ DiskBlocksOf(i) = BlocksOf(i)
  BY DEF DiskBlockIndices, DiskBlocksOf, BlockIndices, BlocksOf
<1>2. \A i \in Inode : BlocksOf(i) \subseteq SavedMarks
  BY DEF Owned, Marked, BlocksOf, BlockIndices
<1> QED
  BY <1>1, <1>2 DEF DiskOwned, Owned, SavedMarks

LEMMA SameDisk ==
    ASSUME DiskOwned, UNCHANGED metadata
    PROVE  DiskOwned'
<1>1. d_inode_table' = d_inode_table /\ d_block_bitmap' = d_block_bitmap
  BY DEF metadata
<1>2. \A i \in Inode : DiskBlockIndices(i)' = DiskBlockIndices(i)
  BY <1>1 DEF DiskBlockIndices
<1>3. \A i \in Inode : DiskBlocksOf(i)' = DiskBlocksOf(i)
  BY <1>1, <1>2 DEF DiskBlocksOf
<1> QED
  BY <1>1, <1>2, <1>3 DEF DiskOwned

-----------------------------------------------------------------------------
(* Steps of the system                                                     *)

LEMMA TaskNext == TaskInv /\ CallInv /\ [Step]_vars => TaskInv'
<1> SUFFICES ASSUME TaskInv, CallInv, [Step]_vars PROVE TaskInv'
  OBVIOUS
<1>1. CASE UNCHANGED vars
  BY <1>1 DEF vars, control, TaskInv
<1>2. ASSUME NEW request \in Request, Call(request) PROVE TaskInv'
  BY <1>2 DEF Call, Goto, Request, TaskInv
<1>3. CASE User
  BY <1>2, <1>3, CallsAssumption DEF User, PowerOn, SwitchOff, Goto, TaskInv, CallInv
<1>4. CASE Boot \/ Install \/ Return
  BY <1>4 DEF Boot, Install, BootInstalled, InstallRoot, InstallSyncSuperblock,
     InstallSyncInodes, InstallSyncBitmap, InstallNextDir, InstallFinish, Return,
     Goto, TaskInv, CallInv, NoTask
<1>5. CASE CreateDir
  BY <1>5 DEF CreateDir, CreateDirEnter, CreateDirAlloc, CreateDirLink,
     CreateDirSyncInodes, CreateDirSyncBitmap, CreateDirReturnsOk, Leave, LinkEntry,
     GiveBack, Goto, TaskInv, CallInv
<1>6. CASE CreateFile
  BY <1>6 DEF CreateFile, CreateFileEnter, CreateFileParent, CreateFileAlloc,
     CreateFileData, CreateFileLink, CreateFileSyncInodes, CreateFileSyncBitmap,
     CreateFileSyncSuperblock, Leave, LinkEntry, GiveBack, Goto, TaskInv, CallInv
<1>7. CASE DeleteFile
  BY <1>7 DEF DeleteFile, DeleteFileEnter, DeleteSyncInodes, DeleteSyncBitmap,
     DeleteReturns, Leave, Goto, TaskInv
<1> QED
  BY <1>1, <1>2, <1>3, <1>4, <1>5, <1>6, <1>7 DEF Step, Next, Kernel

\* Where a deletion is after a step.
LEMMA DeletedNext == LinkInv /\ DeletedInv /\ [Step]_vars => DeletedInv'
<1> SUFFICES ASSUME LinkInv, DeletedInv, [Step]_vars PROVE DeletedInv'
  OBVIOUS
<1>0. TypeOK /\ Owned /\ SavedInv
  BY DEF LinkInv, BlockInv, TypeInv
<1>1. CASE UNCHANGED vars
  <2>1. DiskOwned => DiskOwned'
    BY <1>1, SameDisk DEF vars, disk
  <2> QED
    BY <1>1, <2>1 DEF vars, ram, disk, metadata, control, DeletedInv, Marked, SavedMarks
<1>2. CASE DeleteFileEnter /\ pc' = "delete_inodes"
  <2>1. /\ pc = "delete_file"
        /\ free_inode(find_inode_by_path(task.path))
        /\ UNCHANGED metadata
    BY <1>2, Returns DEF DeleteFileEnter
  <2>2. d_inode_table = inode_table /\ SavedMarks = Marked
    BY <1>0, <2>1 DEF SavedInv, Settled
  <2>3. DiskOwned
    BY <1>0, <2>2, SavedOwned
  <2>4. DiskOwned'
    BY <2>1, <2>3, SameDisk
  <2>5. Marked' \subseteq SavedMarks'
    BY <2>1, <2>2 DEF free_inode, metadata, Marked, SavedMarks
  <2> QED
    BY <2>4, <2>5 DEF DeletedInv
<1>3. CASE DeleteSyncInodes
  BY <1>3 DEF DeleteSyncInodes, Goto, ram, DeletedInv, Marked, SavedMarks
<1>4. CASE Step /\ pc' \notin {"delete_inodes", "delete_bitmap"}
  BY <1>4 DEF DeletedInv
<1>5. ASSUME Step, ~ DeleteFileEnter, ~ DeleteSyncInodes
      PROVE  pc' \notin {"delete_inodes", "delete_bitmap"}
  <2>1. \A request \in Request : Call(request) =>
           pc' \notin {"delete_inodes", "delete_bitmap"}
    BY DEF Call, Goto, Request
  <2> QED
    BY <1>5, <2>1, CallsAssumption
       DEF Step, Next, Kernel, User, Boot, Install, CreateDir, CreateFile, DeleteFile,
       BootInstalled, InstallRoot, InstallSyncSuperblock, InstallSyncInodes,
       InstallSyncBitmap, InstallNextDir, InstallFinish, PowerOn, SwitchOff, Return,
       CreateDirEnter, CreateDirAlloc, CreateDirLink, CreateDirSyncInodes,
       CreateDirSyncBitmap, CreateFileEnter, CreateFileParent, CreateFileAlloc,
       CreateFileData, CreateFileLink, CreateFileSyncInodes, CreateFileSyncBitmap,
       CreateFileSyncSuperblock, DeleteSyncBitmap,
       Goto, Leave, CreateDirReturnsOk, DeleteReturns, LinkEntry, GiveBack
<1>6. DeleteFileEnter => pc' # "delete_bitmap"
  BY DEF DeleteFileEnter, DeleteReturns, Leave, Goto
<1> QED
  BY <1>1, <1>2, <1>3, <1>4, <1>5, <1>6

LEMMA LeakNext == LeakInv /\ [Step]_vars => LeakInv'
<1> SUFFICES ASSUME LeakInv, [Step]_vars PROVE LeakInv'
  OBVIOUS
<1>1. LinkInv'
  BY LinkNext DEF LeakInv
<1>2. TaskInv'
  BY TaskNext DEF LeakInv, LinkInv, BlockInv, TypeInv
<1>3. DeletedInv'
  BY DeletedNext DEF LeakInv
<1> QED
  BY <1>1, <1>2, <1>3 DEF LeakInv

-----------------------------------------------------------------------------
(* A power failure                                                         *)

\* What the failure finds on the disk: the tables in RAM, or those with the
\* file that was just freed.
LEMMA FoundOnDisk ==
    ASSUME LeakInv, pc # "off", task.op \in Harmless
    PROVE  /\ DiskOwned
           /\ \E i \in Inode :
                  /\ \/ d_inode_table[i] = inode_table[i]
                     \/ /\ inode_table[i] = FreeInode
                        /\ d_inode_table[i].type = "FILE"
                  /\ \A k \in Inode \ {i} : d_inode_table[k] = inode_table[k]
<1>0. TypeOK /\ Owned /\ SavedInv /\ DeletedInv /\ 0 \in Inode
  BY ConstantTypes DEF LeakInv, LinkInv, BlockInv, TypeInv
<1>1. pc \in {"boot", "idle", "delete_file", "return"}
      \/ pc = "delete_inodes" \/ pc = "delete_bitmap"
  BY DEF LeakInv, TaskInv, Harmless
<1>2. CASE pc \in {"boot", "idle", "delete_file", "return"}
  <2>1. d_inode_table = inode_table /\ SavedMarks = Marked
    BY <1>0, <1>2 DEF SavedInv, Settled
  <2> QED
    BY <1>0, <2>1, SavedOwned
<1>3. CASE pc = "delete_bitmap"
  <2>1. d_inode_table = inode_table /\ Marked \subseteq SavedMarks
    BY <1>0, <1>3 DEF SavedInv, DeletedInv
  <2> QED
    BY <1>0, <2>1, SavedOwned
<1>4. CASE pc = "delete_inodes"
  <2>1. PICK i \in Inode :
           /\ inode_table[i] = FreeInode /\ d_inode_table[i].type = "FILE"
           /\ d_inode_table = [inode_table EXCEPT ![i] = d_inode_table[i]]
    BY <1>0, <1>4 DEF SavedInv
  <2>2. \A k \in Inode \ {i} : d_inode_table[k] = inode_table[k]
    BY <1>0, <2>1 DEF TypeOK, RamTypeOK
  <2> QED
    BY <1>0, <1>4, <2>1, <2>2 DEF DeletedInv
<1> QED
  BY <1>1, <1>2, <1>3, <1>4

LEMMA FailureTypes == TypeInv /\ PowerFail => TypeInv'
<1> SUFFICES ASSUME TypeInv, PowerFail PROVE TypeInv'
  OBVIOUS
<1>0. TypeOK
  BY DEF TypeInv
<1>1. /\ inode_table' = d_inode_table /\ block_bitmap' = d_block_bitmap
      /\ superblock' = d_superblock /\ UNCHANGED disk
  BY DEF PowerFail
<1>2. RamTypeOK' /\ DiskTypeOK'
  BY <1>0, <1>1 DEF TypeOK, RamTypeOK, DiskTypeOK, disk, metadata
<1>3. NoFrame \in Frame
  BY ConstantTypes, EmptySeq DEF NoFrame, Frame, Path, Root
<1>4. ControlTypeOK' /\ CallInv'
  BY <1>0, <1>3 DEF PowerFail, TypeOK, ControlTypeOK, Label, Task, CallInv,
     FileLabel, DirLabel, NoTask
<1> QED
  BY <1>2, <1>4 DEF TypeInv, TypeOK

LEMMA FailureLeaks ==
    ASSUME LeakInv, PowerFail, task.op \in Harmless
    PROVE  LeakInv'
<1>0. TypeOK /\ TreeOK /\ FreeIsBlank /\ InstalledInv /\ pc # "off"
  BY DEF PowerFail, LeakInv, LinkInv, Tidy, BlockInv, TypeInv
<1>1. /\ inode_table' = d_inode_table /\ block_bitmap' = d_block_bitmap
      /\ superblock' = d_superblock /\ d_superblock' = d_superblock
      /\ d_inode_table' = d_inode_table /\ d_block_bitmap' = d_block_bitmap
      /\ d_data' = d_data /\ pc' = "off" /\ task' = NoTask
  BY DEF PowerFail, disk, metadata
<1>2. DiskOwned
  BY <1>0, FoundOnDisk
<1>3. PICK i \in Inode :
         /\ \/ inode_table'[i] = inode_table[i]
            \/ inode_table[i] = FreeInode /\ inode_table'[i].type = "FILE"
         /\ \A k \in Inode \ {i} : inode_table'[k] = inode_table[k]
  BY <1>0, <1>1, FoundOnDisk
<1>4. TypeInv'
  BY FailureTypes DEF LeakInv, LinkInv, BlockInv
<1>5. Owned'
  <2>1. \A k \in Inode : BlockIndices(k)' = DiskBlockIndices(k)
    BY <1>1 DEF BlockIndices, DiskBlockIndices
  <2>2. \A k \in Inode : BlocksOf(k)' = DiskBlocksOf(k)
    BY <1>1, <2>1 DEF BlocksOf, DiskBlocksOf
  <2> QED
    BY <1>1, <1>2, <2>1, <2>2 DEF Owned, DiskOwned
<1>6. FreeIsBlank'
  BY <1>0, <1>3 DEF FreeIsBlank
<1>7. InstalledInv' /\ SavedInv' /\ LoopInv'
  BY <1>0, <1>1 DEF InstalledInv, SavedInv, LoopInv, Settled, Building, SavedMarks,
     Marked, LeakInv, TaskInv, Harmless
<1>8. TreeOK'
  <2>1. Directories' = Directories
    BY <1>3 DEF Directories, FreeInode
  <2>2. \A d \in Directories : \A s \in Slot : Entry(d, s)' = Entry(d, s)
    <3>1. \A d \in Directories : d \in Inode /\ inode_table'[d] = inode_table[d]
      BY <1>3 DEF Directories, FreeInode
    <3> QED
      BY <1>1, <3>1, DirKept
  <2>3. \A d \in Directories : \A s \in Slot : Entry(d, s).in_use =>
           /\ Entry(d, s).inode \in Inode
           /\ inode_table'[Entry(d, s).inode] = inode_table[Entry(d, s).inode]
    BY <1>0, <1>3 DEF TreeOK, EntriesLive, Live, FreeInode
  <2> QED
    BY <1>0, <2>1, <2>2, <2>3, EntriesKept
<1>9. ParentInv' /\ UnlinkedInv'
  BY <1>1 DEF ParentInv, HoldsParent, UnlinkedInv
<1>10. RootInv'
  <2>1. d_superblock.installed = 1 => inode_table[Root].type = "DIR"
    BY DEF LeakInv, LinkInv, Tidy, RootInv
  <2> QED
    BY <1>1, <1>3, <2>1, ConstantTypes DEF RootInv, Root, FreeInode
<1>11. TaskInv' /\ DeletedInv'
  BY <1>1 DEF TaskInv, DeletedInv, NoTask
<1> QED
  BY <1>4, <1>5, <1>6, <1>7, <1>8, <1>9, <1>10, <1>11
     DEF LeakInv, LinkInv, BlockInv, Tidy

LEMMA CrashInvInit == CrashInit => CrashInv
<1>1. Init => TaskInv /\ DeletedInv
  BY DEF Init, TaskInv, DeletedInv, NoTask
<1> QED
  BY <1>1, LinkInit DEF CrashInit, CrashInv, LeakInv

LEMMA CrashInvNext == CrashInv /\ [CrashNext]_crashVars => CrashInv'
<1> SUFFICES ASSUME CrashInv, [CrashNext]_crashVars, interrupted'.op \in Harmless
             PROVE  LeakInv'
  BY DEF CrashInv
<1>1. CASE Work \/ UNCHANGED crashVars
  <2>1. interrupted' = interrupted /\ [Step]_vars
    BY <1>1 DEF Work, crashVars, Step
  <2> QED
    BY <2>1, LeakNext DEF CrashInv
<1>2. CASE PowerFail
  <2>1. interrupted.op \in Harmless /\ task.op \in Harmless
    BY <1>2 DEF PowerFail
  <2> QED
    BY <1>2, <2>1, FailureLeaks DEF CrashInv
<1> QED
  BY <1>1, <1>2 DEF CrashNext

(***************************************************************************)
(* fs_delete_file clears the entry, then the inode, then the bitmap: in    *)
(* this order no power failure, and no number of them, leaves an entry     *)
(* without its inode, a file with two entries or a block in use that is    *)
(* not marked or has two owners, whatever calls are made in between.       *)
(***************************************************************************)
THEOREM DeletionsOnlyLeak == CrashSpec => []CrashedDeleteOnlyLeaks
<1>1. CrashInv => CrashedDeleteOnlyLeaks
  <2> SUFFICES ASSUME LinkInv
               PROVE  /\ NoDanglingEntries
                      /\ \A i \in Inode : BlocksOf(i) \subseteq block_bitmap
                      /\ \A i, j \in Inode : i # j => BlocksOf(i) \cap BlocksOf(j) = {}
    BY DEF CrashInv, LeakInv, CrashedDeleteOnlyLeaks
  <2> QED
    BY NamedAndLinked DEF LinkInv, BlockInv, Owned
<1> QED
  BY <1>1, CrashInvInit, CrashInvNext, PTL DEF CrashSpec

-----------------------------------------------------------------------------
(* What a failure in a call changes at the paths                           *)

ThreeCalls == {"create_dir", "create_file", "delete_file"}

\* The inode whose entry is on the disk and that is not, when it is found.
Lost(p) ==
    /\ pc \in {"dir_inodes", "file_inodes"} /\ path_walk[p] = frame.inode
    /\ ~ Visible(p)'

\* One inode goes back to what the disk has: which, and where it is seen.
LEMMA OneGoesBack ==
    ASSUME LinkInv, PathInv, PowerFail, pc \notin {"install_superblock", "install_inodes"}
    PROVE  \E i \in Inode :
               /\ \A k \in Inode \ {i} : inode_table'[k] = inode_table[k]
               /\ inode_table'[i] # inode_table[i] =>
                      /\ Empty(i) /\ i \notin Directories'
                      /\ \/ \A p \in NamedPath : path_walk[p] # i
                         \/ /\ pc \in {"dir_inodes", "file_inodes"} /\ i = frame.inode
                            /\ inode_table'[i].type = "FREE"
<1>0. /\ TypeOK /\ SavedInv /\ CallInv /\ CalledInv /\ NamesInv /\ PlaceInv
      /\ LoopInv /\ Tidy /\ Walked /\ 0 \in Inode
  <2>1. TypeOK /\ NamesInv
    BY DEF LinkInv, BlockInv, TypeInv, PathInv
  <2> QED
    BY <2>1, PathsWalked, ConstantTypes
       DEF LinkInv, BlockInv, TypeInv, PathInv, NamesInv
<1>1. inode_table' = d_inode_table
  BY DEF PowerFail
<1>2. frame.inode \in Inode /\ pc \in Label
  BY <1>0 DEF TypeOK, ControlTypeOK, Frame
<1>3. CASE pc \in Building
  <2>1. inode_table' = [inode_table EXCEPT ![frame.inode] = FreeInode]
    BY <1>0, <1>1, <1>3 DEF SavedInv
  <2>2. /\ \A k \in Inode \ {frame.inode} : inode_table'[k] = inode_table[k]
        /\ inode_table'[frame.inode] = FreeInode
    BY <1>0, <1>2, <2>1 DEF TypeOK, RamTypeOK
  <2>3. Empty(frame.inode)
    BY <1>0, <1>3 DEF Building, PlaceInv, LoopInv, Empty, Directories
  <2>4. frame.inode \notin Directories'
    BY <2>2 DEF Directories, FreeInode
  <2>5. pc \in {"dir_link", "file_data"} => \A p \in NamedPath : path_walk[p] # frame.inode
    BY <1>0, <1>2, <2>3, NotWalked DEF Tidy, UnlinkedInv, RootInv
  <2> QED
    BY <1>2, <1>3, <2>2, <2>3, <2>4, <2>5 DEF Building, FreeInode
<1>4. CASE pc = "delete_inodes"
  <2>1. PICK i \in Inode : /\ inode_table[i] = FreeInode /\ d_inode_table[i].type = "FILE"
                           /\ d_inode_table = [inode_table EXCEPT ![i] = d_inode_table[i]]
    BY <1>0, <1>4 DEF SavedInv
  <2>2. \A k \in Inode \ {i} : inode_table'[k] = inode_table[k]
    BY <1>0, <1>1, <2>1 DEF TypeOK, RamTypeOK
  <2>3. Empty(i) /\ i \notin Directories'
    BY <1>1, <2>1 DEF Empty, Directories, FreeInode
  <2>4. \A p \in NamedPath : path_walk[p] # i
    <3> SUFFICES ASSUME NEW p \in NamedPath, path_walk[p] = i PROVE FALSE
      OBVIOUS
    <3>1. inode_table[i].type # "FREE"
      BY <1>4, WalkedInUse DEF Live
    <3> QED
      BY <2>1, <3>1 DEF FreeInode
  <2> QED
    BY <2>2, <2>3, <2>4
<1>5. CASE pc \notin Building \cup {"delete_inodes"}
  <2>1. inode_table' = inode_table
    BY <1>0, <1>1, <1>2, <1>5 DEF SavedInv, Settled, Building, Label
  <2> QED
    BY <1>0, <2>1
<1> QED
  BY <1>3, <1>4, <1>5

\* The walks stay where an inode that nothing is read from changes.
LEMMA WalksKept ==
    ASSUME TypeOK, TypeOK', NamesInv, SameNames
    PROVE  NamesInv' /\ \A p \in NamedPath : path_walk'[p] = path_walk[p]
<1>1. NamesInv' /\ SameEdges
  BY NamesStay
<1>2. Walked /\ Walked'
  BY <1>1, PathsWalked, PathsWalkedNext DEF NamesInv
<1> QED
  BY <1>1, <1>2, SameWalks DEF SameEdges

LEMMA FailureSight ==
    ASSUME LinkInv, PathInv, PowerFail, pc \notin {"install_superblock", "install_inodes"}
    PROVE  NamesInv' /\ \A p \in NamedPath : SameAt(p) \/ Lost(p)
<1>0. TypeOK /\ TypeOK' /\ NamesInv /\ d_data' = d_data
  <2>1. TypeInv /\ NamesInv
    BY DEF LinkInv, BlockInv, PathInv
  <2> QED
    BY <2>1, FailureTypes DEF TypeInv, PowerFail, disk
<1>1. PICK i \in Inode :
         /\ \A k \in Inode \ {i} : inode_table'[k] = inode_table[k]
         /\ inode_table'[i] # inode_table[i] =>
                /\ Empty(i) /\ i \notin Directories'
                /\ \/ \A p \in NamedPath : path_walk[p] # i
                   \/ /\ pc \in {"dir_inodes", "file_inodes"} /\ i = frame.inode
                      /\ inode_table'[i].type = "FREE"
  BY OneGoesBack
<1>2. SameNames
  <2>1. CASE inode_table'[i] = inode_table[i]
    <3>1. inode_table' = inode_table
      BY <1>0, <1>1, <2>1 DEF TypeOK, RamTypeOK
    <3> QED
      BY <1>0, <3>1, QuietNames
  <2>2. CASE inode_table'[i] # inode_table[i]
    <3>1. Empty(i) /\ Empty(i)'
      BY <1>1, <2>2 DEF Empty
    <3> QED
      BY <1>0, <1>1, <3>1, PrivateChange
  <2> QED
    BY <2>1, <2>2
<1>3. NamesInv' /\ \A p \in NamedPath : path_walk'[p] = path_walk[p]
  BY <1>0, <1>2, WalksKept
<1>4. ASSUME NEW p \in NamedPath PROVE SameAt(p) \/ Lost(p)
  <2>1. path_walk'[p] = path_walk[p]
    BY <1>3
  <2>2. CASE path_walk[p] = i /\ inode_table'[i] # inode_table[i]
    <3>1. /\ pc \in {"dir_inodes", "file_inodes"} /\ path_walk[p] = frame.inode
          /\ path_walk'[p] = i /\ inode_table'[i].type = "FREE"
      BY <1>1, <2>1, <2>2
    <3>2. ~ Visible(p)'
      BY <1>0, <3>1, SightOfNext DEF Sight, Live
    <3> QED
      BY <3>1, <3>2 DEF Lost
  <2>3. CASE ~ (path_walk[p] = i /\ inode_table'[i] # inode_table[i])
    <3>1. \A k \in Inode : path_walk[p] = k => inode_table'[k] = inode_table[k]
      BY <1>1, <2>3
    <3>2. \A k \in Inode : inode_table'[k] = inode_table[k] => Spared(k)
      BY <1>0, SameStored
    <3> QED
      BY <1>0, <2>1, <3>1, <3>2, NodeKept
  <2> QED
    BY <2>2, <2>3
<1> QED
  BY <1>3, <1>4

\* After a failure that found a deletion, or no call, the paths are in order.
LEMMA FailurePaths ==
    ASSUME LeakInv, PathInv, PowerFail, task.op \in Harmless
    PROVE  PathInv'
<1>0. /\ TypeOK /\ TypeOK' /\ NamesInv /\ d_data' = d_data /\ inode_table' = d_inode_table
      /\ pc # "off" /\ pc' = "off" /\ task' = NoTask
  <2>1. TypeInv /\ NamesInv
    BY DEF LeakInv, LinkInv, BlockInv, PathInv
  <2> QED
    BY <2>1, FailureTypes DEF TypeInv, PowerFail, disk
<1>1. PICK i \in Inode :
         /\ \/ inode_table'[i] = inode_table[i]
            \/ inode_table[i] = FreeInode /\ inode_table'[i].type = "FILE"
         /\ \A k \in Inode \ {i} : inode_table'[k] = inode_table[k]
  BY <1>0, FoundOnDisk
<1>2. SameNames
  <2>1. CASE inode_table'[i] = inode_table[i]
    <3>1. inode_table' = inode_table
      BY <1>0, <1>1, <2>1 DEF TypeOK, RamTypeOK
    <3> QED
      BY <1>0, <3>1, QuietNames
  <2>2. CASE inode_table[i] = FreeInode /\ inode_table'[i].type = "FILE"
    <3>1. Empty(i) /\ Empty(i)'
      BY <2>2 DEF Empty, Directories, FreeInode
    <3> QED
      BY <1>0, <1>1, <3>1, PrivateChange
  <2> QED
    BY <1>1, <2>1, <2>2
<1>3. NamesInv' /\ \A p \in NamedPath : path_walk'[p] = path_walk[p]
  BY <1>0, <1>2, WalksKept
<1>4. \A k \in Inode : inode_table'[k].type = "DIR" => inode_table[k].type = "DIR"
  BY <1>1
<1>5. KindInv'
  BY <1>3, <1>4 DEF PathInv, KindInv
<1>6. CalledInv' /\ DirInv' /\ PlaceInv'
  BY <1>0 DEF CalledInv, DirInv, PlaceInv, DirLabel, HoldsParent, NoTask
<1> QED
  BY <1>3, <1>5, <1>6 DEF PathInv

-----------------------------------------------------------------------------
(* The tree before a call, and the tree after it                           *)

\* Trees old and new have the same at p.
AgreeAt(old, new, p) ==
    /\ p \in DOMAIN new <=> p \in DOMAIN old
    /\ p \in DOMAIN old => new[p] = old[p]

\* They differ at path t, or above it where old has nothing.
Confined(old, new, t) ==
    \A p \in Paths : \/ p \in Prefixes(t) /\ p \notin DOMAIN old
                     \/ p = t
                     \/ AgreeAt(old, new, p)

LEMMA TreeSight ==
    \A p \in Paths : /\ p \in DOMAIN Tree <=> Visible(p)
                     /\ p \in DOMAIN Tree => Tree[p] = NodeAt(p)
  BY DEF Tree, Visible

LEMMA TreeSightNext ==
    \A p \in Paths : /\ p \in DOMAIN Tree' <=> Visible(p)'
                     /\ p \in DOMAIN Tree' => Tree'[p] = NodeAt(p)'
  BY DEF Tree, Visible

LEMMA SameTreeAt ==
    ASSUME NEW p \in Paths, SameAt(p)
    PROVE  AgreeAt(Tree, Tree', p)
  BY TreeSight, TreeSightNext DEF SameAt, AgreeAt

\* The directory a call is about to enter, or has, is on its way.
LEMMA OnTheWay ==
    ASSUME PlainCalls, TypeOK, CallInv, CalledInv, DirInv,
           pc \in DirLabel, task.op \in ThreeCalls
    PROVE  Prefix(frame.dir, frame.depth) \in Prefixes(task.path)
<1>1. task.path \in NamedPath /\ frame.depth \in 1 .. Len(frame.dir)
  BY PathsInHand DEF ThreeCalls, CallInv
<1>2. CASE frame.dir = task.path
  BY <1>1, <1>2 DEF Prefixes, NamedPath
<1>3. CASE frame.dir = Parent(task.path) /\ task.path # << >>
  <2>1. /\ Len(task.path) \in Nat \ {0} /\ Len(Parent(task.path)) = Len(task.path) - 1
    BY <1>1, <1>3, NamedPathParts
  <2>2. frame.depth \in 0 .. Len(task.path) /\ frame.depth <= Len(task.path) - 1
    BY <1>1, <1>3, <2>1
  <2>3. Prefix(Parent(task.path), frame.depth) = Prefix(task.path, frame.depth)
    BY <1>1, <2>1, <2>2 DEF Prefix, Parent, NamedPath
  <2> QED
    BY <1>3, <2>2, <2>3 DEF Prefixes
<1>4. task.op = "create_file" => task.path # << >>
  BY DEF CallInv, DirLabel
<1> QED
  BY <1>2, <1>3, <1>4 DEF DirInv, ThreeCalls

-----------------------------------------------------------------------------
(* The invariant behind CrashSparesOtherPaths                              *)

\* A call runs on a disk that no failure has hurt.
Calling == interrupted.op \in Harmless /\ task.op \in ThreeCalls

\* The directory whose entry has just been written was not there before.
NewHere ==
    (Calling /\ pc = "dir_inodes") =>
        \/ Prefix(frame.dir, frame.depth) = task.path
        \/ Prefix(frame.dir, frame.depth) \notin Paths \cap DOMAIN before

\* From the failure to the next call.
Resumed ==
    (untouched /\ interrupted.op \in ThreeCalls) =>
        /\ pc \in {"off", "boot", "idle"}
        /\ TypeOK /\ NamesInv
        /\ inode_table = d_inode_table /\ d_superblock.installed = 1
        /\ Confined(before, Tree, interrupted.path)

ConfinedInv ==
    /\ interrupted.op \in Harmless => LeakInv /\ PathInv
    /\ Calling => Confined(before, Tree, task.path)
    /\ NewHere
    /\ Resumed

LEMMA ConfinedInit == CrashInit => ConfinedInv
<1>1. Init => TaskInv /\ DeletedInv
  BY DEF Init, TaskInv, DeletedInv, NoTask
<1>2. "none" \in Harmless /\ "none" \notin ThreeCalls
  BY DEF Harmless, ThreeCalls
<1> QED
  BY <1>1, <1>2, LinkInit, PathInit
     DEF CrashInit, Init, NoTask, ConfinedInv, LeakInv, Calling, NewHere, Resumed

\* One of the three calls goes on.
LEMMA CallGoesOn ==
    ASSUME LinkInv, Next, pc # "idle", task'.op \in ThreeCalls
    PROVE  task' = task /\ pc \notin {"boot", "off"}
<1>0. TypeInv
  BY DEF LinkInv, BlockInv
<1>1. task' = task
  BY DEF Next, Kernel, User, Boot, Install, CreateDir, CreateFile, DeleteFile,
     Call, BootInstalled, InstallRoot, InstallSyncSuperblock, InstallSyncInodes,
     InstallSyncBitmap, InstallNextDir, InstallFinish, PowerOn, SwitchOff, Return,
     CreateDirEnter, CreateDirAlloc, CreateDirLink, CreateDirSyncInodes,
     CreateDirSyncBitmap, CreateFileEnter, CreateFileParent, CreateFileAlloc,
     CreateFileData, CreateFileLink, CreateFileSyncInodes, CreateFileSyncBitmap,
     CreateFileSyncSuperblock, DeleteFileEnter, DeleteSyncInodes, DeleteSyncBitmap,
     Goto, Leave, CreateDirReturnsOk, DeleteReturns, LinkEntry, GiveBack, NoTask,
     ThreeCalls
<1> QED
  BY <1>0, <1>1 DEF TypeInv, CallInv, NoTask, ThreeCalls

\* Where a directory's entry is on the disk and its inode is not yet.
LEMMA OnlyLinking ==
    ASSUME LinkInv, Next, pc' = "dir_inodes"
    PROVE  Linking
<1>1. \A request \in Requests : Call(request) => pc' # "dir_inodes"
  BY CallsAssumption DEF Call, Goto, Request
<1> QED
  BY <1>1 DEF Linking, Next, Kernel, User, Boot, Install, CreateDir, CreateFile, DeleteFile,
     BootInstalled, InstallRoot, InstallSyncSuperblock, InstallSyncInodes,
     InstallSyncBitmap, InstallNextDir, InstallFinish, PowerOn, SwitchOff, Return,
     CreateDirEnter, CreateDirAlloc, CreateDirSyncInodes,
     CreateDirSyncBitmap, CreateFileEnter, CreateFileParent, CreateFileAlloc,
     CreateFileData, CreateFileSyncInodes, CreateFileSyncBitmap,
     CreateFileSyncSuperblock, DeleteFileEnter, DeleteSyncInodes, DeleteSyncBitmap,
     Goto, Leave, CreateDirReturnsOk, DeleteReturns, GiveBack

\* What the entry that is written may add to the tree.
LEMMA LinkingHere ==
    ASSUME PlainCalls, LinkInv, PathInv, Linking, task.op \in ThreeCalls,
           Confined(before, Tree, task.path), Target \in Paths
    PROVE  \/ Target = task.path
           \/ Target \in Prefixes(task.path) /\ Target \notin DOMAIN before
<1>0. TypeOK /\ CallInv /\ CalledInv /\ DirInv /\ PlaceInv
  BY DEF LinkInv, BlockInv, TypeInv, PathInv
<1>1. CASE pc = "file_data"
  BY <1>1 DEF Target
<1>2. CASE pc = "dir_link"
  <2>1. Target = Prefix(frame.dir, frame.depth) /\ Target \in Prefixes(task.path)
    BY <1>0, <1>2, OnTheWay DEF Target, DirLabel
  <2>2. Absent(Target) /\ Target \in NamedPath
    BY <1>0, <1>2, <2>1 DEF PlaceInv, PlainCalls
  <2>3. Target \notin DOMAIN Tree
    BY <1>0, <2>2, TreeSight, SightOf, ConstantTypes DEF Sight, Absent, Live
  <2> QED
    BY <2>1, <2>3 DEF Confined, AgreeAt
<1> QED
  BY <1>1, <1>2 DEF Linking, CreateDirLink, CreateFileLink

LEMMA CallConfined ==
    ASSUME PlainCalls, ConfinedInv, Work, Calling'
    PROVE  Confined(before', Tree', task'.path) /\ NewHere'
<1>0. /\ LinkInv /\ PathInv /\ [Next]_vars /\ Next /\ Paths \subseteq NamedPath
      /\ TypeOK' /\ interrupted' = interrupted
      /\ Calling => Confined(before, Tree, task.path)
  <2>1. LinkInv /\ PathInv /\ Next /\ interrupted' = interrupted
    BY DEF ConfinedInv, LeakInv, Work, Calling
  <2>2. [Step]_vars
    BY <2>1 DEF Step
  <2> QED
    BY <2>1, <2>2, LinkNext DEF LinkInv, BlockInv, TypeInv, PlainCalls, ConfinedInv
<1>1. CASE pc = "idle"
  <2>1. pc' # "off"
    <3>1. pc' = "off" => task' = NoTask
      BY <1>0, LinkNext DEF Step, LinkInv, BlockInv, TypeInv, CallInv
    <3> QED
      BY <3>1 DEF Calling, NoTask, ThreeCalls
  <2>2. before' = Tree
    BY <1>1, <2>1 DEF Work
  <2>3. ~ Linking /\ ~ Deleting
    BY <1>1 DEF Linking, Deleting, CreateDirLink, CreateFileLink, DeleteFileEnter
  <2>4. \A p \in Paths : AgreeAt(Tree, Tree', p)
    BY <1>0, <1>1, <2>3, StepTree, SameTreeAt
  <2>5. Confined(before', Tree', task'.path)
    BY <2>2, <2>4 DEF Confined
  <2>6. pc' # "dir_inodes"
    BY <1>0, <2>3, OnlyLinking
  <2> QED
    BY <2>5, <2>6 DEF NewHere
<1>2. CASE pc # "idle"
  <2>1. task' = task /\ pc \notin {"boot", "off"} /\ before' = before /\ task.op \in ThreeCalls
    BY <1>0, <1>2, CallGoesOn DEF Work, Calling
  <2>2. Confined(before, Tree, task.path)
    BY <1>0, <2>1 DEF Calling
  <2>3. ASSUME NEW p \in Paths
        PROVE  \/ p \in Prefixes(task.path) /\ p \notin DOMAIN before
               \/ p = task.path
               \/ AgreeAt(Tree, Tree', p)
    <3>1. CASE Linking /\ p = Target
      BY <1>0, <2>1, <2>2, <3>1, LinkingHere
    <3>2. CASE Deleting /\ p = task.path
      BY <3>2
    <3>3. CASE (Linking => p # Target) /\ (Deleting => p # task.path)
      BY <1>0, <2>1, <3>3, StepTree, SameTreeAt
    <3> QED
      BY <3>1, <3>2, <3>3
  <2>4. Confined(before, Tree', task.path)
    BY <2>2, <2>3 DEF Confined, AgreeAt
  <2>5. NewHere'
    <3> SUFFICES ASSUME pc' = "dir_inodes"
                 PROVE  \/ Prefix(frame'.dir, frame'.depth) = task'.path
                        \/ Prefix(frame'.dir, frame'.depth) \notin Paths \cap DOMAIN before'
      BY DEF NewHere
    <3>1. Linking
      BY <1>0, OnlyLinking
    <3>2. pc = "dir_link" /\ frame' = frame
      BY <1>0, <3>1, LinkSight
    <3>3. Target = Prefix(frame'.dir, frame'.depth)
      BY <3>2 DEF Target
    <3> QED
      BY <1>0, <2>1, <2>2, <3>1, <3>3, LinkingHere
  <2> QED
    BY <2>1, <2>4, <2>5
<1> QED
  BY <1>1, <1>2

LEMMA FailureConfined ==
    ASSUME PlainCalls, ConfinedInv, PowerFail
    PROVE  ConfinedInv'
<1>0. /\ LeakInv /\ LinkInv /\ PathInv /\ TypeInv /\ interrupted.op \in Harmless
      /\ pc # "off" /\ pc' = "off" /\ task' = NoTask /\ interrupted' = task
      /\ before' = before /\ UNCHANGED disk /\ inode_table' = d_inode_table
      /\ Paths \subseteq NamedPath
  BY DEF ConfinedInv, LeakInv, LinkInv, BlockInv, PowerFail, PlainCalls
<1>1. task.op \in Harmless => LeakInv' /\ PathInv'
  BY <1>0, FailureLeaks, FailurePaths
<1>2. ~ Calling' /\ NewHere'
  BY <1>0 DEF Calling, NewHere, NoTask, ThreeCalls
<1>3. Resumed'
  <2> SUFFICES ASSUME task.op \in ThreeCalls
               PROVE  /\ TypeOK' /\ NamesInv'
                      /\ inode_table' = d_inode_table' /\ d_superblock'.installed = 1
                      /\ Confined(before, Tree', task.path)
    BY <1>0 DEF Resumed
  <2>1. TypeOK'
    BY <1>0, FailureTypes DEF TypeInv
  <2>2. inode_table' = d_inode_table'
    BY <1>0 DEF disk, metadata
  <2>3. d_superblock'.installed = 1
    <3>1. pc \notin {"boot", "off", "install_superblock"}
      BY <1>0 DEF TypeInv, CallInv, PathInv, CalledInv, NoTask, ThreeCalls
    <3> QED
      BY <1>0, <3>1 DEF LinkInv, BlockInv, InstalledInv, disk, metadata
  <2>4. NamesInv' /\ \A p \in NamedPath : SameAt(p) \/ Lost(p)
    <3>1. pc \notin {"install_superblock", "install_inodes"}
      BY <1>0 DEF PathInv, CalledInv, ThreeCalls
    <3> QED
      BY <1>0, <3>1, FailureSight
  <2>5. Confined(before, Tree, task.path) /\ NewHere /\ Calling
    BY <1>0 DEF ConfinedInv, Calling
  <2>6. ASSUME NEW p \in Paths
        PROVE  \/ p \in Prefixes(task.path) /\ p \notin DOMAIN before
               \/ p = task.path
               \/ AgreeAt(before, Tree', p)
    <3>1. CASE SameAt(p)
      BY <2>5, <3>1, SameTreeAt DEF Confined, AgreeAt
    <3>2. CASE Lost(p) /\ pc = "file_inodes"
      BY <1>0, <3>2 DEF Lost, PathInv, PlaceInv
    <3>3. CASE Lost(p) /\ pc = "dir_inodes"
      <4>1. p = Prefix(frame.dir, frame.depth)
        BY <1>0, <3>3 DEF Lost, PathInv, PlaceInv
      <4>2. p \in Prefixes(task.path)
        BY <1>0, <3>3, <4>1, OnTheWay DEF PathInv, TypeInv, DirLabel
      <4> QED
        BY <2>5, <3>3, <4>1, <4>2 DEF NewHere
    <3> QED
      BY <1>0, <2>4, <3>1, <3>2, <3>3 DEF Lost
  <2> QED
    BY <2>1, <2>2, <2>3, <2>4, <2>6 DEF Confined
<1> QED
  BY <1>0, <1>1, <1>2, <1>3 DEF ConfinedInv

\* A step that leaves the disk and what RAM has of it.
LEMMA StillSame ==
    ASSUME PlainCalls, TypeOK, TypeOK', NamesInv,
           inode_table' = inode_table, d_data' = d_data
    PROVE  NamesInv' /\ \A p \in Paths : AgreeAt(Tree, Tree', p)
<1>1. NamesInv' /\ \A p \in NamedPath : path_walk'[p] = path_walk[p]
  BY QuietNames, WalksKept
<1>2. \A i \in Inode : Spared(i)
  BY SameStored
<1> QED
  BY <1>1, <1>2, NodeKept, SameTreeAt DEF PlainCalls

\* Nothing changes before the next call: the machine is switched off and on.
Rebooting == PowerOn \/ SwitchOff \/ BootInstalled

LEMMA OnlyRebooting ==
    ASSUME Next, pc \in {"off", "boot", "idle"}, d_superblock.installed = 1,
           pc = "idle" => pc' = "off"
    PROVE  Rebooting
<1>1. \A request \in Requests : Call(request) => pc' # "off"
  BY CallsAssumption DEF Call, Goto, Request
<1> QED
  BY <1>1 DEF Rebooting, Next, Kernel, User, Boot, Install, CreateDir, CreateFile, DeleteFile,
     Call, InstallRoot, InstallSyncSuperblock, InstallSyncInodes,
     InstallSyncBitmap, InstallNextDir, InstallFinish, Return,
     CreateDirEnter, CreateDirAlloc, CreateDirLink, CreateDirSyncInodes,
     CreateDirSyncBitmap, CreateFileEnter, CreateFileParent, CreateFileAlloc,
     CreateFileData, CreateFileLink, CreateFileSyncInodes, CreateFileSyncBitmap,
     CreateFileSyncSuperblock, DeleteFileEnter, DeleteSyncInodes, DeleteSyncBitmap

LEMMA Rebooted ==
    ASSUME Rebooting, TypeOK, inode_table = d_inode_table
    PROVE  /\ pc' \in {"off", "boot", "idle"} /\ TypeOK' /\ task' = task
           /\ inode_table' = inode_table /\ UNCHANGED disk
           /\ inode_table' = d_inode_table'
           /\ d_superblock' = d_superblock /\ d_data' = d_data
<1>1. /\ pc' \in {"off", "boot", "idle"}
      /\ inode_table' = inode_table /\ UNCHANGED disk
      /\ task' = task /\ frame' = frame /\ result' = result /\ boots' \in {boots, boots + 1}
      /\ superblock' \in {superblock, d_superblock}
      /\ block_bitmap' \in {block_bitmap, d_block_bitmap}
  BY DEF Rebooting, PowerOn, SwitchOff, BootInstalled, Goto, ram
<1>2. TypeOK'
  BY <1>1 DEF TypeOK, RamTypeOK, DiskTypeOK, ControlTypeOK, Label, disk, metadata
<1> QED
  BY <1>1, <1>2 DEF disk, metadata

LEMMA ResumedSame ==
    ASSUME PlainCalls, ConfinedInv, Work, untouched', interrupted'.op \in ThreeCalls
    PROVE  /\ pc' \in {"off", "boot", "idle"}
           /\ TypeOK' /\ NamesInv'
           /\ inode_table' = d_inode_table' /\ d_superblock'.installed = 1
           /\ before' = before /\ interrupted' = interrupted
           /\ Confined(before, Tree, interrupted.path)
           /\ \A p \in Paths : AgreeAt(Tree, Tree', p)
<1>1. /\ Next /\ interrupted' = interrupted /\ untouched /\ before' = before
      /\ pc = "idle" => pc' = "off"
  BY DEF Work
<1>2. /\ pc \in {"off", "boot", "idle"}
      /\ TypeOK /\ NamesInv
      /\ inode_table = d_inode_table /\ d_superblock.installed = 1
      /\ Confined(before, Tree, interrupted.path)
  BY <1>1 DEF ConfinedInv, Resumed
<1>3. Rebooting
  BY <1>1, <1>2, OnlyRebooting
<1>4. /\ pc' \in {"off", "boot", "idle"} /\ TypeOK'
      /\ inode_table' = inode_table /\ d_data' = d_data
      /\ inode_table' = d_inode_table' /\ d_superblock' = d_superblock
  BY <1>2, <1>3, Rebooted
<1>5. NamesInv' /\ \A p \in Paths : AgreeAt(Tree, Tree', p)
  BY <1>2, <1>4, StillSame
<1> QED
  BY <1>1, <1>2, <1>4, <1>5

LEMMA ResumedNext ==
    ASSUME PlainCalls, ConfinedInv, Work
    PROVE  Resumed'
  BY ResumedSame DEF Resumed, Confined, AgreeAt

LEMMA ConfinedNext ==
    PlainCalls /\ ConfinedInv /\ [CrashNext]_crashVars => ConfinedInv'
<1> SUFFICES ASSUME PlainCalls, ConfinedInv, [CrashNext]_crashVars PROVE ConfinedInv'
  OBVIOUS
<1>1. CASE Work
  <2>1. interrupted' = interrupted /\ [Next]_vars /\ [Step]_vars
    BY <1>1 DEF Work, Step
  <2>2. interrupted'.op \in Harmless => LeakInv' /\ PathInv'
    BY <2>1, LeakNext, PathNext DEF ConfinedInv, LeakInv
  <2>3. Calling' => Confined(before', Tree', task'.path) /\ NewHere'
    BY <1>1, CallConfined
  <2>4. ~ Calling' => NewHere'
    BY DEF NewHere
  <2> QED
    BY <1>1, <2>2, <2>3, <2>4, ResumedNext DEF ConfinedInv
<1>2. CASE UNCHANGED crashVars
  <2>1. UNCHANGED vars /\ UNCHANGED <<interrupted, untouched, before>>
    BY <1>2 DEF crashVars
  <2>2. LeakInv /\ PathInv => LeakInv' /\ PathInv'
    BY <2>1, LeakNext, PathNext DEF LeakInv
  <2>3. UNCHANGED <<pc, task, frame, inode_table, d_inode_table, d_superblock, d_data>>
    BY <2>1 DEF vars, ram, disk, metadata, control
  <2>4. ASSUME TypeOK, NamesInv
        PROVE  TypeOK' /\ NamesInv' /\ (PlainCalls => \A p \in Paths : AgreeAt(Tree, Tree', p))
    <3>1. TypeOK'
      BY <2>1, <2>4 DEF TypeOK, RamTypeOK, DiskTypeOK, ControlTypeOK,
         vars, ram, disk, metadata, control
    <3> QED
      BY <2>3, <2>4, <3>1, StillSame
  <2>5. Calling => TypeOK /\ NamesInv
    BY DEF Calling, ConfinedInv, LeakInv, LinkInv, BlockInv, TypeInv, PathInv
  <2>6. Calling' => Confined(before', Tree', task'.path)
    BY <2>1, <2>3, <2>4, <2>5 DEF ConfinedInv, Calling, Confined, AgreeAt
  <2>7. NewHere'
    BY <2>1, <2>3 DEF ConfinedInv, Calling, NewHere
  <2>8. Resumed'
    BY <2>1, <2>3, <2>4 DEF ConfinedInv, Resumed, Confined, AgreeAt
  <2> QED
    BY <2>1, <2>2, <2>6, <2>7, <2>8 DEF ConfinedInv
<1>3. CASE PowerFail
  BY <1>3, FailureConfined
<1> QED
  BY <1>1, <1>2, <1>3 DEF CrashNext

(***************************************************************************)
(* A power failure between any two disk writes of a call damages nothing   *)
(* but the path of that call and the parents it was making: after the      *)
(* reboot every other path has what it had before the call, for every size *)
(* of the tables, every history of calls, and whatever deletions were cut  *)
(* before.  The calls are those PlainCalls describes.                      *)
(***************************************************************************)
THEOREM FailuresConfined ==
    ASSUME PlainCalls
    PROVE  CrashSpec => []CrashSparesOtherPaths
<1>1. ConfinedInv => CrashSparesOtherPaths
  BY DEF ConfinedInv, Resumed, Recovered, ThreeCalls, Confined, AgreeAt,
     CrashSparesOtherPaths
<1>2. ConfinedInv /\ [CrashNext]_crashVars => ConfinedInv'
  BY ConfinedNext
<1> QED
  BY <1>1, <1>2, ConfinedInit, PTL DEF CrashSpec

-----------------------------------------------------------------------------
(* The invariant behind CrashOldNewOrNothing                               *)

\* What the tree has at the path of call t is what it had, or all t puts there.
OldOrNew(old, new, t) ==
    t.path \in DOMAIN new =>
        \/ t.path \in DOMAIN old /\ new[t.path] = old[t.path]
        \/ /\ t.op = "create_file"
           /\ new[t.path] = [type |-> "FILE", content |-> t.content]
        \/ t.op = "create_dir" /\ new[t.path].type = "DIR"

OldOrNewInv ==
    /\ ConfinedInv
    /\ interrupted.op \in Harmless => StoreInv
    /\ Calling => OldOrNew(before, Tree, task)
    /\ (untouched /\ interrupted.op \in ThreeCalls) => OldOrNew(before, Tree, interrupted)

LEMMA OldOrNewInit == CrashInit => OldOrNewInv
  BY ConfinedInit, StoreInit
     DEF CrashInit, Init, NoTask, OldOrNewInv, Calling, Harmless, ThreeCalls

LEMMA OldKept ==
    ASSUME NEW old, NEW tree, NEW new, NEW t, OldOrNew(old, tree, t),
           t.path \in DOMAIN new => AgreeAt(tree, new, t.path)
    PROVE  OldOrNew(old, new, t)
  BY DEF OldOrNew, AgreeAt

LEMMA OnlyInPaths == DOMAIN Tree \subseteq Paths /\ DOMAIN Tree' \subseteq Paths
  BY DEF Tree

\* The entry of the call's own path is that of a new file or directory.
LEMMA OwnPath ==
    ASSUME PlainCalls, LinkInv, PathInv, Linking, Target = task.path, task.op \in ThreeCalls
    PROVE  IF pc = "dir_link" THEN task.op = "create_dir" ELSE task.op = "create_file"
<1>0. TypeOK /\ CallInv /\ CalledInv /\ DirInv
  BY DEF LinkInv, BlockInv, TypeInv, PathInv
<1>1. CASE pc = "file_data"
  BY <1>0, <1>1 DEF CallInv, FileLabel
<1>2. CASE pc = "dir_link"
  <2>1. /\ frame.dir \in NamedPath /\ Fronts(frame.dir) \subseteq DirPaths
        /\ frame.depth \in 1 .. Len(frame.dir)
    BY <1>0, <1>2, PathsInHand DEF CallInv, DirLabel
  <2>2. task.path \in DirPaths
    BY <1>2, <2>1, FrontParts DEF Target
  <2>3. task.op = "create_file" => task.path # << >>
    BY <1>0, <1>2 DEF CallInv
  <2>4. task.op # "create_file"
    BY <1>0, <2>2, <2>3, PathsInHand
  <2> QED
    BY <1>0, <1>2, <2>4 DEF DirInv, DirLabel, ThreeCalls
<1> QED
  BY <1>1, <1>2 DEF Linking, CreateDirLink, CreateFileLink

LEMMA CallOldOrNew ==
    ASSUME PlainCalls, ShortFiles, OldOrNewInv, Work, Calling'
    PROVE  OldOrNew(before', Tree', task')
<1>0. /\ LinkInv /\ PathInv /\ StoreInv /\ [Next]_vars /\ Next /\ Paths \subseteq NamedPath
      /\ TypeOK' /\ interrupted' = interrupted
  <2>1. LinkInv /\ PathInv /\ StoreInv /\ Next /\ interrupted' = interrupted
    BY DEF OldOrNewInv, ConfinedInv, LeakInv, Work, Calling
  <2>2. [Step]_vars
    BY <2>1 DEF Step
  <2> QED
    BY <2>1, <2>2, LinkNext DEF LinkInv, BlockInv, TypeInv, PlainCalls
<1>1. CASE pc = "idle"
  <2>1. pc' # "off"
    <3>1. pc' = "off" => task' = NoTask
      BY <1>0, LinkNext DEF Step, LinkInv, BlockInv, TypeInv, CallInv
    <3> QED
      BY <3>1 DEF Calling, NoTask, ThreeCalls
  <2>2. before' = Tree
    BY <1>1, <2>1 DEF Work
  <2>3. ~ Linking /\ ~ Deleting
    BY <1>1 DEF Linking, Deleting, CreateDirLink, CreateFileLink, DeleteFileEnter
  <2>4. \A p \in Paths : AgreeAt(Tree, Tree', p)
    BY <1>0, <1>1, <2>3, StepTree, SameTreeAt
  <2> QED
    BY <2>2, <2>4, OnlyInPaths DEF OldOrNew, AgreeAt
<1>2. CASE pc # "idle"
  <2>1. task' = task /\ pc \notin {"boot", "off"} /\ before' = before /\ task.op \in ThreeCalls
    BY <1>0, <1>2, CallGoesOn DEF Work, Calling
  <2>2. OldOrNew(before, Tree, task)
    BY <1>0, <2>1 DEF Calling, OldOrNewInv
  <2>3. CASE Linking /\ task.path = Target
    <3> SUFFICES ASSUME NEW t, t = task.path, t \in DOMAIN Tree'
                 PROVE  \/ /\ task.op = "create_file"
                           /\ Tree'[t] = [type |-> "FILE", content |-> task.content]
                        \/ task.op = "create_dir" /\ Tree'[t].type = "DIR"
      BY <2>1 DEF OldOrNew
    <3>1. t \in Paths /\ Visible(t)' /\ Tree'[t] = NodeAt(t)'
      BY OnlyInPaths, TreeSightNext
    <3>2. NodeAt(t)' = IF pc = "dir_link" THEN [type |-> "DIR", content |-> << >>]
                       ELSE [type |-> "FILE", content |-> task.content]
      BY <1>0, <2>3, <3>1, NewNode
    <3> QED
      BY <1>0, <2>1, <2>3, <3>1, <3>2, OwnPath
  <2>4. CASE Deleting
    <3> SUFFICES ASSUME NEW t, t = task.path, t \in DOMAIN Tree' PROVE FALSE
      BY <2>1 DEF OldOrNew
    <3>1. t \in NamedPath /\ Visible(t)'
      BY <1>0, OnlyInPaths, TreeSightNext
    <3>2. path_walk'[t] = NoInode
      BY <1>0, <2>1, <2>4, DeleteSight DEF Absent
    <3> QED
      BY <1>0, <3>1, <3>2, SightOfNext, ConstantTypes DEF Sight, Live
  <2>5. CASE ~ Deleting /\ (Linking => task.path # Target)
    <3>1. ASSUME NEW t, t = task.path, t \in DOMAIN Tree' PROVE AgreeAt(Tree, Tree', t)
      BY <1>0, <2>1, <2>5, <3>1, OnlyInPaths, StepTree, SameTreeAt
    <3> QED
      BY <2>1, <2>2, <3>1, OldKept
  <2> QED
    BY <2>3, <2>4, <2>5
<1> QED
  BY <1>1, <1>2

LEMMA FailureOldOrNew ==
    ASSUME PlainCalls, OldOrNewInv, PowerFail
    PROVE  OldOrNewInv'
<1>0. /\ LinkInv /\ PathInv /\ TypeInv /\ StoreInv /\ TaskInv /\ interrupted.op \in Harmless
      /\ pc # "off" /\ pc' = "off" /\ task' = NoTask /\ interrupted' = task
      /\ before' = before /\ UNCHANGED disk /\ frame' = NoFrame
      /\ Paths \subseteq NamedPath
  BY DEF OldOrNewInv, ConfinedInv, LeakInv, LinkInv, BlockInv, PowerFail, PlainCalls
<1>1. ConfinedInv'
  BY FailureConfined DEF OldOrNewInv
<1>2. ASSUME task.op \in Harmless PROVE StoreInv'
  BY <1>0, <1>2 DEF StoreInv, ZeroInv, WrittenInv, NoFrame, disk, metadata, Harmless
<1>3. ~ Calling'
  BY <1>0 DEF Calling, NoTask, ThreeCalls
<1>4. ASSUME task.op \in ThreeCalls PROVE OldOrNew(before, Tree', task)
  <2>1. \A p \in NamedPath : SameAt(p) \/ Lost(p)
    <3>1. pc \notin {"install_superblock", "install_inodes"}
      BY <1>0, <1>4 DEF PathInv, CalledInv, ThreeCalls
    <3> QED
      BY <1>0, <3>1, FailureSight
  <2>2. OldOrNew(before, Tree, task)
    BY <1>0, <1>4 DEF OldOrNewInv, Calling
  <2>3. ASSUME NEW t, t = task.path, t \in DOMAIN Tree' PROVE AgreeAt(Tree, Tree', t)
    <3>1. t \in Paths /\ Visible(t)'
      BY <2>3, OnlyInPaths, TreeSightNext
    <3> QED
      BY <1>0, <2>1, <3>1, SameTreeAt DEF Lost
  <2> QED
    BY <2>2, <2>3, OldKept
<1> QED
  BY <1>0, <1>1, <1>2, <1>3, <1>4 DEF OldOrNewInv

LEMMA OldOrNewNext ==
    PlainCalls /\ ShortFiles /\ ZeroGoesFirst /\ OldOrNewInv /\ [CrashNext]_crashVars
        => OldOrNewInv'
<1> SUFFICES ASSUME PlainCalls, ShortFiles, ZeroGoesFirst, OldOrNewInv,
                    [CrashNext]_crashVars
             PROVE  OldOrNewInv'
  OBVIOUS
<1>0. ConfinedInv /\ ConfinedInv'
  BY ConfinedNext DEF OldOrNewInv
<1>1. CASE Work \/ UNCHANGED crashVars
  <2>1. interrupted' = interrupted /\ [Next]_vars
    BY <1>1 DEF Work, crashVars
  <2>2. interrupted'.op \in Harmless => StoreInv'
    BY <1>0, <2>1, StoreNext DEF OldOrNewInv, ConfinedInv, LeakInv
  <2>3. CASE Work
    <3>1. Calling' => OldOrNew(before', Tree', task')
      BY <2>3, CallOldOrNew
    <3>2. ASSUME untouched', interrupted'.op \in ThreeCalls
          PROVE  OldOrNew(before', Tree', interrupted')
      <4>1. untouched /\ before' = before /\ OldOrNew(before, Tree, interrupted)
        BY <2>1, <2>3, <3>2 DEF Work, OldOrNewInv
      <4>2. \A p \in Paths : AgreeAt(Tree, Tree', p)
        BY <2>3, <3>2, <1>0, ResumedSame
      <4> QED
        BY <2>1, <4>1, <4>2, OldKept, OnlyInPaths
    <3> QED
      BY <1>0, <2>2, <3>1, <3>2 DEF OldOrNewInv
  <2>4. CASE UNCHANGED crashVars
    <3>1. UNCHANGED <<interrupted, untouched, before, task>> /\ UNCHANGED vars
      BY <2>4 DEF crashVars, vars, control
    <3>2. ASSUME TypeOK, NamesInv PROVE \A p \in Paths : AgreeAt(Tree, Tree', p)
      <4>1. TypeOK'
        BY <3>1, <3>2 DEF TypeOK, RamTypeOK, DiskTypeOK, ControlTypeOK,
           vars, ram, disk, metadata, control
      <4> QED
        BY <3>1, <3>2, <4>1, StillSame DEF vars, ram, disk
    <3>3. Calling \/ (untouched /\ interrupted.op \in ThreeCalls) => TypeOK /\ NamesInv
      BY <1>0 DEF Calling, ConfinedInv, LeakInv, LinkInv, BlockInv, TypeInv, PathInv, Resumed
    <3>4. \A t : OldOrNew(before, Tree, t) /\ TypeOK /\ NamesInv => OldOrNew(before, Tree', t)
      BY <3>2, OldKept, OnlyInPaths
    <3> QED
      BY <1>0, <2>2, <3>1, <3>3, <3>4 DEF OldOrNewInv, Calling
  <2> QED
    BY <1>1, <2>3, <2>4
<1>2. CASE PowerFail
  BY <1>2, FailureOldOrNew
<1> QED
  BY <1>1, <1>2 DEF CrashNext

(***************************************************************************)
(* fs_create_file writes the data, then the entry, then the inode: wherever*)
(* a power failure stops it, its path has after the reboot the old file,   *)
(* the new one with all of its content, or nothing; and the path of a cut  *)
(* fs_delete_file or fs_create_dir what it had, or nothing, or the new     *)
(* directory.  For every size of the tables and every content that fits    *)
(* the direct blocks of an inode.                                          *)
(***************************************************************************)
THEOREM NeverHalfAFile ==
    ASSUME PlainCalls, ShortFiles, ZeroGoesFirst
    PROVE  CrashSpec => []CrashOldNewOrNothing
<1>1. OldOrNewInv => CrashOldNewOrNothing
  BY DEF OldOrNewInv, OldOrNew, Recovered, ThreeCalls, CrashOldNewOrNothing
<1>2. OldOrNewInv /\ [CrashNext]_crashVars => OldOrNewInv'
  BY OldOrNewNext
<1> QED
  BY <1>1, <1>2, OldOrNewInit, PTL DEF CrashSpec

-----------------------------------------------------------------------------
(* The invariant behind CrashedInstallIsPrefix                             *)

\* The installed tree, as far as it was made.
SomePrefix(domain) == domain = {} \/ \E k \in 0 .. Len(InstallDirs) : domain = Made(k)

\* The disk is as the calls left it, or empty for the installation that comes, or
\* that installation runs.
Sound ==
    \/ interrupted.op \in Harmless
    \/ /\ interrupted.op = "install" /\ untouched
       /\ d_superblock.installed # 1 \/ task.op = "install"

\* From the failure of an installation that is never made again to the next call.
Reached ==
    (interrupted.op = "install" /\ untouched /\ ~ Sound) =>
        /\ pc \in {"off", "boot", "idle"}
        /\ TypeOK /\ NamesInv
        /\ inode_table = d_inode_table
        /\ SomePrefix(DOMAIN Tree)

PrefixInv ==
    /\ Sound => LeakInv /\ PathInv /\ ZeroInv /\ LayInv
    /\ Reached

LEMMA PrefixInit == CrashInit => PrefixInv
<1>1. Init => ZeroInv
  BY StoreInit DEF StoreInv
<1> QED
  BY <1>1, CrashInvInit, PathInit, LayInit
     DEF CrashInit, NoTask, Harmless, CrashInv, PrefixInv, Sound, Reached

LEMMA LaidTree ==
    ASSUME PlainCalls, PlainInstall, TypeOK, NamesInv,
           NEW n \in 0 .. Len(InstallDirs), NEW m \in 0 .. Len(InstallDirs), m <= n,
           Laid(n, m)
    PROVE  DOMAIN Tree = Made(m)
<1>1. Walked /\ n \in Nat
  BY PathsWalked, ListParts DEF NamesInv
<1>2. ASSUME NEW p \in Made(m) PROVE p \in Paths /\ path_walk[p] \in Live
  <2>1. path_walk[p] \in Inode /\ inode_table[path_walk[p]].type = "DIR"
    BY <1>1, MadeWalks DEF Laid
  <2>2. p \in Paths
    BY PathsAssumption, ListParts DEF Made
  <2> QED
    BY <2>1, <2>2 DEF Live
<1>3. ASSUME NEW p \in NamedPath \ Made(m) PROVE path_walk[p] \notin Live
  BY ConstantTypes DEF Laid, WalksOf, Absent, Live
<1>4. Paths \subseteq NamedPath
  BY DEF PlainCalls
<1> QED
  BY <1>2, <1>3, <1>4, TreeSight, OnlyInPaths, SightOf DEF Sight

LEMMA SamePrefix ==
    ASSUME \A p \in Paths : AgreeAt(Tree, Tree', p)
    PROVE  DOMAIN Tree' = DOMAIN Tree
  BY OnlyInPaths DEF AgreeAt

-----------------------------------------------------------------------------
(* A failure while the root directory is saved: the inode table on the     *)
(* disk is empty                                                           *)

LEMMA NothingSaved ==
    ASSUME PlainCalls, PlainInstall, LeakInv, LayInv, PowerFail,
           pc \in {"install_superblock", "install_inodes"}
    PROVE  inode_table' = [i \in Inode |-> FreeInode]
<1>1. /\ inode_table = TableOf(0) /\ inode_table' = [inode_table EXCEPT ![Root] = FreeInode]
  BY DEF LayInv, Laid, LeakInv, LinkInv, BlockInv, SavedInv, PowerFail
<1>2. \A i \in Inode : i <= 0 <=> i = Root
  BY SizesAssumption DEF Inode, Root
<1> QED
  BY <1>1, <1>2 DEF TableOf

LEMMA NothingSeen ==
    ASSUME PlainCalls, TypeInv', inode_table' = [i \in Inode |-> FreeInode]
    PROVE  NamesInv' /\ Directories' = {} /\ DOMAIN Tree' = {}
<1>1. \A i \in Inode : inode_table'[i].type = "FREE"
  BY DEF FreeInode
<1>2. Directories' = {}
  BY <1>1 DEF Directories
<1>3. NamesInv'
  BY <1>2 DEF NamesInv, NamesOnce, NamedOnce, RootUnnamed
<1>4. \A p \in NamedPath : ~ (Visible(p)')
  BY <1>1, SightOfNext DEF Sight, Live, TypeInv
<1> QED
  BY <1>2, <1>3, <1>4, TreeSightNext, OnlyInPaths DEF PlainCalls

LEMMA NothingThere ==
    ASSUME PlainCalls, PowerFail, TypeInv', d_superblock.installed # 1,
           inode_table' = [i \in Inode |-> FreeInode]
    PROVE  LeakInv' /\ PathInv'
<1>1. /\ inode_table' = d_inode_table' /\ block_bitmap' = d_block_bitmap'
      /\ d_superblock'.installed # 1 /\ pc' = "off" /\ task' = NoTask
  BY DEF PowerFail, disk, metadata
<1>2. NamesInv' /\ Directories' = {}
  BY NothingSeen
<1>3. \A i \in Inode : inode_table'[i] = FreeInode /\ inode_table'[i].type = "FREE"
  BY DEF FreeInode
<1>4. Owned'
  <2>1. \A i \in Inode : BlockIndices(i)' = {}
    BY <1>3 DEF BlockIndices, FreeInode
  <2>2. \A i \in Inode : BlocksOf(i)' = {}
    BY <2>1 DEF BlocksOf
  <2> QED
    BY <2>1, <2>2 DEF Owned
<1>5. BlockInv'
  BY <1>1, <1>3, <1>4 DEF BlockInv, FreeIsBlank, InstalledInv, SavedInv, LoopInv,
     Settled, Building, SavedMarks, Marked
<1>6. Tidy'
  BY <1>1, <1>2, <1>3 DEF Tidy, TreeOK, EntriesLive, OneLink, ParentInv, HoldsParent,
     UnlinkedInv, RootInv
<1>7. TaskInv' /\ DeletedInv'
  BY <1>1 DEF TaskInv, DeletedInv, NoTask
<1>8. PathInv'
  BY <1>1, <1>2, <1>3 DEF PathInv, CalledInv, DirInv, PlaceInv, KindInv, DirLabel,
     HoldsParent, NoTask
<1> QED
  BY <1>5, <1>6, <1>7, <1>8 DEF LeakInv, LinkInv

-----------------------------------------------------------------------------
(* A failure after that: the first directories, and what is being made     *)

LEMMA WhereLaid ==
    ASSUME PlainCalls, PlainInstall, LinkInv, PathInv, ZeroInv, LayInv,
           task.op = "install", pc \notin {"install_superblock", "install_inodes"}
    PROVE  \E n \in 0 .. Len(InstallDirs) : \E m \in 0 .. Len(InstallDirs) :
               /\ m <= n /\ Laid(n, m)
               /\ pc = "dir_inodes" =>
                      /\ n = m /\ n # 0
                      /\ Prefix(frame.dir, frame.depth) = InstallDirs[n]
<1>0. /\ pc \in Label /\ frame.i \in Nat /\ CallInv /\ CalledInv
      /\ Len(InstallDirs) \in Nat \ {0}
  BY ListParts DEF LinkInv, BlockInv, TypeInv, TypeOK, ControlTypeOK, Frame, PathInv
<1>1. /\ pc \notin {"boot", "off", "idle", "return"}
      /\ pc \notin FileLabel \cup {"create_file"}
      /\ pc \notin {"delete_file", "delete_inodes", "delete_bitmap"}
  BY <1>0 DEF CallInv, CalledInv, NoTask, ZeroInv
<1>2. CASE pc = "install_bitmap"
  BY <1>0, <1>2 DEF LayInv
<1>3. CASE pc = "install_dirs"
  BY <1>0, <1>3 DEF LayInv
<1>4. CASE pc \in DirLabel \cup {"create_dir"}
  <2>1. Laying /\ frame.i \in 1 .. Len(InstallDirs)
    BY <1>4 DEF LayInv, Laying
  <2>2. PICK n \in 1 .. Len(InstallDirs) : n = frame.i
    BY <2>1
  <2>3. n \in 0 .. Len(InstallDirs) /\ n - 1 \in 0 .. Len(InstallDirs) /\ n - 1 <= n /\ n <= n
    BY <1>0
  <2>4. CASE pc \in {"create_dir", "dir_alloc"}
    <3>1. Laid(n - 1, n - 1)
      BY <1>4, <2>2, <2>4 DEF LayInv
    <3> QED
      BY <2>3, <2>4, <3>1
  <2>5. CASE pc = "dir_link"
    <3>1. Laid(n, n - 1)
      BY <1>4, <2>2, <2>5 DEF LayInv, DirLabel
    <3> QED
      BY <2>3, <2>5, <3>1
  <2>6. CASE pc \in {"dir_inodes", "dir_bitmap"}
    <3>1. Laid(n, n)
      BY <1>4, <2>2, <2>6 DEF LayInv, DirLabel
    <3>2. Prefix(frame.dir, frame.depth) = InstallDirs[n]
      <4>1. frame.dir = InstallDirs[n] /\ frame.depth = Len(frame.dir)
        BY <2>1, <2>2, <2>6 DEF Laying
      <4> QED
        BY <4>1, FrontParts, ListParts
    <3> QED
      BY <2>3, <3>1, <3>2
  <2> QED
    BY <1>4, <2>4, <2>5, <2>6 DEF DirLabel
<1> QED
  BY <1>0, <1>1, <1>2, <1>3, <1>4 DEF Label, FileLabel, DirLabel

LEMMA FailureLaid ==
    ASSUME PlainCalls, PlainInstall, LinkInv, PathInv, ZeroInv, LayInv, PowerFail,
           task.op = "install", pc \notin {"install_superblock", "install_inodes"}
    PROVE  NamesInv' /\ SomePrefix(DOMAIN Tree')
<1>0. TypeOK /\ NamesInv /\ PlaceInv /\ CallInv
  BY DEF LinkInv, BlockInv, TypeInv, PathInv
<1>1. PICK n \in 0 .. Len(InstallDirs), m \in 0 .. Len(InstallDirs) :
         /\ m <= n /\ Laid(n, m)
         /\ pc = "dir_inodes" =>
                n = m /\ n # 0 /\ Prefix(frame.dir, frame.depth) = InstallDirs[n]
  BY WhereLaid
<1>2. DOMAIN Tree = Made(m)
  BY <1>0, <1>1, LaidTree
<1>3. NamesInv' /\ \A p \in NamedPath : SameAt(p) \/ Lost(p)
  BY FailureSight
<1>4. ASSUME NEW p \in Paths PROVE (p \in DOMAIN Tree' <=> p \in DOMAIN Tree) \/ Lost(p)
  BY <1>3, <1>4, SameTreeAt DEF PlainCalls, AgreeAt
<1>5. CASE \A p \in Paths : ~ Lost(p)
  <2>1. DOMAIN Tree' = Made(m)
    BY <1>2, <1>4, <1>5, OnlyInPaths
  <2> QED
    BY <1>3, <2>1 DEF SomePrefix
<1>6. ASSUME NEW q \in Paths, Lost(q) PROVE SomePrefix(DOMAIN Tree')
  <2>1. pc = "dir_inodes" /\ \A p \in Paths : Lost(p) => p = Prefix(frame.dir, frame.depth)
    <3>1. pc # "file_inodes"
      BY <1>0 DEF CallInv, FileLabel
    <3> QED
      BY <1>0, <1>6, <3>1 DEF Lost, PlaceInv, PlainCalls
  <2>2. n = m /\ n \in 1 .. Len(InstallDirs) /\ \A p \in Paths : Lost(p) => p = InstallDirs[n]
    BY <1>1, <2>1, ListParts
  <2>3. q = InstallDirs[n] /\ q \notin DOMAIN Tree'
    BY <1>6, <2>2, TreeSightNext DEF Lost
  <2>4. DOMAIN Tree' = Made(n) \ {q}
    BY <1>2, <1>4, <2>2, <2>3, OnlyInPaths
  <2>5. Made(n) \ {q} = Made(n - 1)
    <3>1. q # << >> /\ \A j \in 1 .. Len(InstallDirs) : InstallDirs[j] = q => j = n
      BY <2>2, <2>3, ListParts
    <3>2. Made(n) = Made(n - 1) \cup {q} /\ n - 1 \in Nat
      BY <2>2, <2>3 DEF Made
    <3>3. q \notin Made(n - 1)
      BY <2>2, <2>3, WayMade
    <3> QED
      BY <3>2, <3>3
  <2>6. n - 1 \in 0 .. Len(InstallDirs)
    BY <2>2, ListParts
  <2> QED
    BY <2>4, <2>5, <2>6 DEF SomePrefix
<1> QED
  BY <1>3, <1>5, <1>6

LEMMA FailurePrefix ==
    ASSUME PlainCalls, PlainInstall, PrefixInv, PowerFail
    PROVE  PrefixInv'
<1>0. /\ LeakInv /\ LinkInv /\ PathInv /\ ZeroInv /\ LayInv /\ TypeInv
      /\ interrupted' = task /\ untouched' /\ pc' = "off" /\ pc # "off" /\ task' = NoTask
      /\ frame' = NoFrame /\ UNCHANGED disk
      /\ inode_table' = d_inode_table /\ d_superblock' = d_superblock
  BY DEF PrefixInv, Sound, LeakInv, LinkInv, BlockInv, PowerFail, disk, metadata
<1>1. TypeInv' /\ inode_table' = d_inode_table'
  BY <1>0, FailureTypes DEF disk, metadata
<1>2. LayInv'
  BY <1>0 DEF LayInv, DirLabel
<1>3. CASE task.op \in Harmless
  <2>1. LeakInv' /\ PathInv'
    BY <1>0, <1>3, FailureLeaks, FailurePaths
  <2>2. ZeroInv'
    BY <1>0, <1>3 DEF ZeroInv, NoFrame, disk, metadata, Harmless
  <2> QED
    BY <1>0, <1>2, <1>3, <2>1, <2>2 DEF PrefixInv, Sound, Reached, Harmless
<1>4. CASE task.op \notin Harmless \cup {"install"}
  BY <1>0, <1>4 DEF PrefixInv, Sound, Reached
<1>5. CASE task.op = "install" /\ pc \in {"install_superblock", "install_inodes"}
  <2>1. inode_table' = [i \in Inode |-> FreeInode]
    BY <1>0, <1>5, NothingSaved
  <2>2. NamesInv' /\ DOMAIN Tree' = {}
    BY <1>1, <2>1, NothingSeen
  <2>3. Reached'
    BY <1>0, <1>1, <2>2 DEF Reached, SomePrefix, TypeInv
  <2>4. d_superblock.installed # 1 => LeakInv' /\ PathInv' /\ ZeroInv'
    BY <1>0, <1>1, <2>1, NothingThere DEF ZeroInv, NoFrame
  <2> QED
    BY <1>0, <1>2, <1>5, <2>3, <2>4 DEF PrefixInv, Sound, Harmless, NoTask
<1>6. CASE task.op = "install" /\ pc \notin {"install_superblock", "install_inodes"}
  <2>1. Reached'
    BY <1>0, <1>1, <1>6, FailureLaid DEF Reached, TypeInv
  <2>2. d_superblock.installed = 1
    BY <1>0, <1>6 DEF LeakInv, LinkInv, BlockInv, InstalledInv, TypeInv, CallInv, NoTask
  <2>3. ~ Sound'
    BY <1>0, <1>6, <2>2 DEF Sound, Harmless, NoTask
  <2> QED
    BY <2>1, <2>3 DEF PrefixInv
<1> QED
  BY <1>3, <1>4, <1>5, <1>6

-----------------------------------------------------------------------------
(* Steps of the system after it                                            *)

\* A boot of what is there, and switching off.
LEMMA ReachedStep ==
    ASSUME PlainCalls, Reached, Work, untouched', interrupted.op = "install", ~ Sound
    PROVE  ~ Sound' /\ Reached'
<1>1. /\ Next /\ interrupted' = interrupted /\ untouched
      /\ pc = "idle" => pc' = "off"
  BY DEF Work
<1>2. /\ pc \in {"off", "boot", "idle"}
      /\ TypeOK /\ NamesInv
      /\ inode_table = d_inode_table /\ d_superblock.installed = 1 /\ task.op # "install"
      /\ SomePrefix(DOMAIN Tree)
  BY <1>1 DEF Reached, Sound
<1>3. Rebooting
  BY <1>1, <1>2, OnlyRebooting
<1>4. /\ pc' \in {"off", "boot", "idle"} /\ TypeOK' /\ task' = task
      /\ inode_table' = inode_table /\ d_data' = d_data
      /\ inode_table' = d_inode_table' /\ d_superblock' = d_superblock
  BY <1>2, <1>3, Rebooted
<1>5. NamesInv' /\ DOMAIN Tree' = DOMAIN Tree
  BY <1>2, <1>4, StillSame, SamePrefix
<1> QED
  BY <1>1, <1>2, <1>4, <1>5 DEF Sound, Reached

\* The installation that comes after a failure before it saved its superblock.
LEMMA SoundStep ==
    ASSUME PlainCalls, PlainInstall, PrefixInv, Sound, Work, ~ Sound', untouched',
           interrupted.op = "install"
    PROVE  Reached'
<1>0. /\ LinkInv /\ PathInv /\ ZeroInv /\ LayInv /\ Next /\ untouched
      /\ interrupted' = interrupted /\ interrupted.op \notin Harmless
      /\ TypeOK /\ NamesInv /\ CallInv /\ CalledInv /\ SavedInv
  BY DEF PrefixInv, LeakInv, LinkInv, BlockInv, TypeInv, PathInv, Work, Sound, Harmless
<1>1. TypeOK'
  <2>1. [Step]_vars
    BY <1>0 DEF Step
  <2> QED
    BY <1>0, <2>1, LinkNext DEF LinkInv, BlockInv, TypeInv
<1>2. InstallFinish
  <2>1. d_superblock'.installed = 1 /\ task'.op # "install"
    BY <1>0 DEF Sound
  <2>2. CASE task.op # "install"
    <3>1. d_superblock.installed # 1 /\ pc \in {"boot", "off"}
      BY <1>0, <2>2 DEF Sound, LinkInv, BlockInv, InstalledInv, CalledInv
    <3>2. PowerOn \/ InstallRoot
      BY <1>0, <3>1 DEF Next, Kernel, User, Boot, Install, CreateDir, CreateFile, DeleteFile,
         Call, BootInstalled, SwitchOff, InstallSyncSuperblock, InstallSyncInodes,
         InstallSyncBitmap, InstallNextDir, InstallFinish, Return,
         CreateDirEnter, CreateDirAlloc, CreateDirLink, CreateDirSyncInodes,
         CreateDirSyncBitmap, CreateFileEnter, CreateFileParent, CreateFileAlloc,
         CreateFileData, CreateFileLink, CreateFileSyncInodes, CreateFileSyncBitmap,
         CreateFileSyncSuperblock, DeleteFileEnter, DeleteSyncInodes, DeleteSyncBitmap
    <3> QED
      BY <2>1, <3>1, <3>2 DEF PowerOn, InstallRoot, disk, metadata
  <2>3. CASE task.op = "install"
    <3>1. task' # task
      BY <2>1, <2>3
    <3>2. pc \notin {"idle", "return"}
      BY <1>0, <2>3 DEF CallInv, ZeroInv, NoTask
    <3> QED
      BY <1>0, <3>1, <3>2, <2>1 DEF Next, Kernel, User, Boot, Install, CreateDir, CreateFile,
         DeleteFile, Call, BootInstalled, InstallRoot, InstallSyncSuperblock,
         InstallSyncInodes, InstallSyncBitmap, InstallNextDir, PowerOn, SwitchOff, Return,
         CreateDirEnter, CreateDirAlloc, CreateDirLink, CreateDirSyncInodes,
         CreateDirSyncBitmap, CreateFileEnter, CreateFileParent, CreateFileAlloc,
         CreateFileData, CreateFileLink, CreateFileSyncInodes, CreateFileSyncBitmap,
         CreateFileSyncSuperblock, DeleteFileEnter, DeleteSyncInodes, DeleteSyncBitmap,
         Goto, Leave, CreateDirReturnsOk, DeleteReturns, LinkEntry, GiveBack, NoTask
  <2> QED
    BY <2>2, <2>3
<1>3. /\ pc = "install_dirs" /\ frame.i >= Len(InstallDirs)
      /\ inode_table' = inode_table /\ d_data' = d_data /\ d_inode_table' = inode_table
      /\ pc' = "off"
  BY <1>2 DEF InstallFinish, ram, sync_inode_table, Goto
<1>4. Laid(Len(InstallDirs), Len(InstallDirs)) /\ Len(InstallDirs) \in 0 .. Len(InstallDirs)
  <2>1. frame.i <= Len(InstallDirs) /\ Laid(frame.i, frame.i)
    BY <1>0, <1>3 DEF LayInv
  <2>2. frame.i \in Nat /\ Len(InstallDirs) \in Nat
    BY <1>0, ListParts DEF TypeOK, ControlTypeOK, Frame
  <2>3. frame.i = Len(InstallDirs)
    BY <1>3, <2>1, <2>2
  <2> QED
    BY <2>1, <2>2, <2>3
<1>5. DOMAIN Tree = Made(Len(InstallDirs))
  BY <1>0, <1>4, LaidTree
<1>6. NamesInv' /\ DOMAIN Tree' = DOMAIN Tree
  BY <1>0, <1>1, <1>3, StillSame, SamePrefix
<1>7. SomePrefix(DOMAIN Tree')
  BY <1>4, <1>5, <1>6 DEF SomePrefix
<1> QED
  BY <1>1, <1>3, <1>6, <1>7 DEF Reached

LEMMA PrefixNext ==
    PlainCalls /\ PlainInstall /\ PrefixInv /\ [CrashNext]_crashVars => PrefixInv'
<1> SUFFICES ASSUME PlainCalls, PlainInstall, PrefixInv, [CrashNext]_crashVars
             PROVE  PrefixInv'
  OBVIOUS
<1>1. ZeroGoesFirst
  BY ListParts, SizesAssumption DEF ZeroGoesFirst, PlainInstall
<1>2. ASSUME Sound, [Next]_vars PROVE LeakInv' /\ PathInv' /\ ZeroInv' /\ LayInv'
  <2>1. LeakInv /\ LinkInv /\ PathInv /\ ZeroInv /\ LayInv
    BY <1>2 DEF PrefixInv, LeakInv
  <2>2. [Step]_vars
    BY <1>2 DEF Step
  <2> QED
    BY <1>1, <1>2, <2>1, <2>2, LeakNext, PathNext, ZeroNext, LayNext
<1>3. CASE Work
  <2>1. interrupted' = interrupted /\ [Next]_vars /\ (untouched' => untouched)
    BY <1>3 DEF Work
  <2>2. CASE Sound
    <3>1. LeakInv' /\ PathInv' /\ ZeroInv' /\ LayInv'
      BY <1>2, <2>1, <2>2
    <3>2. Reached'
      <4>1. CASE interrupted.op = "install" /\ untouched' /\ ~ Sound'
        BY <1>3, <2>2, <4>1, SoundStep
      <4>2. CASE ~ (interrupted.op = "install" /\ untouched' /\ ~ Sound')
        BY <2>1, <4>2 DEF Reached
      <4> QED
        BY <4>1, <4>2
    <3> QED
      BY <3>1, <3>2 DEF PrefixInv
  <2>3. CASE ~ Sound /\ interrupted.op = "install" /\ untouched'
    BY <1>3, <2>3, ReachedStep DEF PrefixInv
  <2>4. CASE ~ Sound /\ ~ (interrupted.op = "install" /\ untouched')
    BY <2>1, <2>4 DEF PrefixInv, Sound, Reached
  <2> QED
    BY <2>2, <2>3, <2>4
<1>4. CASE UNCHANGED crashVars
  <2>1. UNCHANGED vars /\ UNCHANGED <<interrupted, untouched>> /\ [Next]_vars
    BY <1>4 DEF crashVars
  <2>2. UNCHANGED <<pc, task, inode_table, d_inode_table, d_superblock, d_data>>
    BY <2>1 DEF vars, ram, disk, metadata, control
  <2>3. Sound' <=> Sound
    BY <2>1, <2>2 DEF Sound
  <2>4. Reached'
    <3> SUFFICES ASSUME interrupted.op = "install", untouched, ~ Sound
                 PROVE  Reached'
      BY <2>1, <2>3 DEF Reached
    <3>1. TypeOK /\ NamesInv
      BY DEF PrefixInv, Reached
    <3>2. TypeOK'
      BY <2>1, <3>1 DEF TypeOK, RamTypeOK, DiskTypeOK, ControlTypeOK,
         vars, ram, disk, metadata, control
    <3>3. NamesInv' /\ DOMAIN Tree' = DOMAIN Tree
      BY <2>2, <3>1, <3>2, StillSame, SamePrefix
    <3> QED
      BY <2>2, <3>2, <3>3 DEF PrefixInv, Reached
  <2> QED
    BY <1>2, <2>1, <2>3, <2>4 DEF PrefixInv
<1>5. CASE PowerFail
  BY <1>5, FailurePrefix
<1> QED
  BY <1>3, <1>4, <1>5 DEF CrashNext

(***************************************************************************)
(* fs_install saves installed = 1 before the tables and never runs again:  *)
(* wherever a power failure stops it, the machine boots to nothing, to the *)
(* whole tree, or to the first of the directories it makes, each of them   *)
(* whole and in their order, whatever their number and the sizes of the    *)
(* tables.                                                                 *)
(***************************************************************************)
THEOREM CutInstallIsAPrefix ==
    ASSUME PlainCalls, PlainInstall
    PROVE  CrashSpec => []CrashedInstallIsPrefix
<1>1. PrefixInv => CrashedInstallIsPrefix
  <2> SUFFICES ASSUME PrefixInv, pc = "idle", untouched, interrupted.op = "install"
               PROVE  SomePrefix(DOMAIN Tree)
    BY DEF CrashedInstallIsPrefix, SomePrefix, Made
  <2>1. ~ Sound
    <3> SUFFICES ASSUME Sound PROVE FALSE
      OBVIOUS
    <3>1. d_superblock.installed = 1 /\ task = NoTask
      BY DEF PrefixInv, LeakInv, LinkInv, BlockInv, TypeInv, CallInv, InstalledInv
    <3> QED
      BY <3>1 DEF Sound, Harmless, NoTask
  <2> QED
    BY <2>1 DEF PrefixInv, Reached
<1>2. PrefixInv /\ [CrashNext]_crashVars => PrefixInv'
  BY PrefixNext
<1> QED
  BY <1>1, <1>2, PrefixInit, PTL DEF CrashSpec

=============================================================================
