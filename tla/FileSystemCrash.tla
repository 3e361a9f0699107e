---------------------------- MODULE FileSystemCrash ----------------------------
(***************************************************************************)
(* The file system when the power may fail between any two disk writes of  *)
(* a call: RAM and the running call are lost, the disk stays as the writes *)
(* made so far left it, and the next boot loads it as it is (there is no   *)
(* journal and no check).                                                  *)
(*                                                                         *)
(* A sync of the inode table is one write here although it is 24 sectors:  *)
(* OneDirtyInode of FileSystem shows that only one inode can differ from   *)
(* its image, so a torn sync is the old table or the new one (but for an   *)
(* inode that straddles two sectors, which is not modelled).               *)
(***************************************************************************)
EXTENDS FileSystemTree

CONSTANT MaxCrashes         \* bound: how often the power fails

ASSUME CrashesAssumption == MaxCrashes \in Nat

VARIABLES
    crashes,        \* how often the power has failed
    interrupted,    \* the call the last power failure cut
    untouched,      \* no call was made since that failure
    before          \* the tree the shell saw before the last call

crashVars == <<vars, crashes, interrupted, untouched, before>>

CrashInit ==
    /\ Init
    /\ crashes = 0
    /\ interrupted = NoTask
    /\ untouched = FALSE
    /\ before = << >>

\* A step of the system; a call takes the picture the next failure needs.
Work ==
    /\ Next
    /\ UNCHANGED <<crashes, interrupted>>
    /\ IF pc = "idle" /\ pc' # "off"
       THEN untouched' = FALSE /\ before' = Tree
       ELSE UNCHANGED <<untouched, before>>

\* Failures that find no call running, or a deletion, leave the disk sound
\* (CrashedDeleteOnlyLeaks).  What another one leaves may get worse, when a later
\* call gives away an inode that an entry names or blocks in use: nothing is
\* claimed of it but by the first boot, and no failure after it is looked at.
Harmless == {"none", "delete_file"}

\* What RAM holds from now on is read by nothing before a boot replaces it: by
\* what the disk holds, so it is given that at once.
PowerFail ==
    /\ crashes < MaxCrashes
    /\ interrupted.op \in Harmless
    /\ pc # "off"
    /\ superblock' = d_superblock
    /\ inode_table' = d_inode_table
    /\ block_bitmap' = d_block_bitmap
    /\ crashes' = crashes + 1
    /\ interrupted' = task
    /\ untouched' = TRUE
    /\ pc' = "off"
    /\ task' = NoTask
    /\ frame' = NoFrame
    /\ result' = "ok"
    /\ UNCHANGED <<disk, boots, before>>

CrashNext == Work \/ PowerFail

CrashSpec == CrashInit /\ [][CrashNext]_crashVars

-----------------------------------------------------------------------------
Recovered ==
    /\ pc = "idle" /\ untouched
    /\ interrupted.op \in {"create_dir", "create_file", "delete_file"}

Prefixes(path) == {Prefix(path, k) : k \in 0 .. Len(path)}

(***************************************************************************)
(* The damage of one power failure is confined: after the reboot every     *)
(* path but the interrupted call's own (and the parents it was making) has *)
(* what it had before the call, wherever the writes stopped.               *)
(***************************************************************************)
CrashSparesOtherPaths ==
    Recovered =>
        \A path \in Paths :
            \/ path \in Prefixes(interrupted.path) /\ path \notin DOMAIN before
            \/ path = interrupted.path
            \/ /\ path \in DOMAIN Tree <=> path \in DOMAIN before
               /\ path \in DOMAIN before => Tree[path] = before[path]

(***************************************************************************)
(* fs_create_file writes the data, then the entry, then the inode: after a *)
(* failure the path it was writing has the old file, the whole new file or *)
(* nothing, never a part of the new one.                                   *)
(***************************************************************************)
CrashOldNewOrNothing ==
    (Recovered /\ interrupted.path \in DOMAIN Tree) =>
        \/ /\ interrupted.path \in DOMAIN before
           /\ Tree[interrupted.path] = before[interrupted.path]
        \/ /\ interrupted.op = "create_file"
           /\ Tree[interrupted.path] = [type |-> "FILE",
                                        content |-> interrupted.content]
        \/ /\ interrupted.op = "create_dir"
           /\ Tree[interrupted.path].type = "DIR"

(***************************************************************************)
(* fs_delete_file clears the entry, then the inode, then the bitmap.  In   *)
(* this order a power failure loses space but corrupts nothing: however    *)
(* many deletions were cut, and for as long as the system then runs,       *)
(* entries name inodes in use, a file has one entry at most, and a block   *)
(* in use is marked and has one owner.                                     *)
(***************************************************************************)
CrashedDeleteOnlyLeaks ==
    (pc \notin {"off", "boot"} /\ interrupted.op \in Harmless) =>
        /\ NoDanglingEntries
        /\ \A i \in Inode : BlocksOf(i) \subseteq block_bitmap
        /\ \A i, j \in Inode : i # j => BlocksOf(i) \cap BlocksOf(j) = {}

(***************************************************************************)
(* fs_install saves installed = 1 before the tables and never runs again:  *)
(* a failure in it leaves a machine that boots to the login over an empty  *)
(* disk without a root, or over the first of the directories it makes, all *)
(* of them whole and in their order.                                       *)
(***************************************************************************)
CrashedInstallIsPrefix ==
    (pc = "idle" /\ untouched /\ interrupted.op = "install") =>
        \/ DOMAIN Tree = {}
        \/ \E k \in 0 .. Len(InstallDirs) :
               DOMAIN Tree = {<< >>} \cup {InstallDirs[j] : j \in 1 .. k}

=============================================================================
