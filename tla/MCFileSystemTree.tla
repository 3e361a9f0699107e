--------------------------- MODULE MCFileSystemTree ---------------------------
(***************************************************************************)
(* FileSystemTree on a disk with room for every directory entry, where the *)
(* calls keep files and directories apart and leave /bin alone.  Three     *)
(* blocks are left after the installation, fewer than the calls ask for:   *)
(* a file may meet the full disk at its second block, and an overwrite     *)
(* after the old file is gone.                                             *)
(***************************************************************************)
EXTENDS FileSystemTree

Mkdir(path) == [op |-> "create_dir", path |-> path, content |-> << >>]
Put(path, content) == [op |-> "create_file", path |-> path, content |-> content]
Rm(path) == [op |-> "delete_file", path |-> path, content |-> << >>]

MCInstallDirs == << <<"bin">>, <<"home">> >>

MCRequests ==
    {Mkdir(<<"home", "d", "e">>), Mkdir(<<"home", "e">>),
     Put(<<"home", "a">>, <<"x", "y">>), Put(<<"home", "a">>, <<"y">>),
     Put(<<"home", "d", "a">>, <<"y">>),
     Rm(<<"home", "a">>)}

MCPaths ==
    {<< >>, <<"bin">>, <<"home">>, <<"home", "a">>, <<"home", "d">>,
     <<"home", "d", "e">>, <<"home", "d", "a">>, <<"home", "e">>}

\* What the theorems of FileSystemPathProofs ask of the calls.
ASSUME CallsArePlain ==
    PlainCalls /\ ShortFiles /\ PlainInstall /\ RoomForCalls /\ CallsSeen

=============================================================================
