--------------------------- MODULE MCFileSystemCrash ---------------------------
(***************************************************************************)
(* FileSystemCrash with a power failure at any point of a short history,   *)
(* and another after one that cut a deletion or no call.                   *)
(***************************************************************************)
EXTENDS FileSystemCrash

Mkdir(path) == [op |-> "create_dir", path |-> path, content |-> << >>]
Put(path, content) == [op |-> "create_file", path |-> path, content |-> content]
Rm(path) == [op |-> "delete_file", path |-> path, content |-> << >>]

MCInstallDirs == << <<"bin">>, <<"home">> >>

MCRequests ==
    {Mkdir(<<"home", "d", "e">>),
     Put(<<"home", "a">>, <<"x">>), Put(<<"home", "a">>, <<"y", "y">>),
     Put(<<"b">>, <<"y">>),
     Rm(<<"home", "a">>)}

MCPaths ==
    {<< >>, <<"bin">>, <<"home">>, <<"home", "a">>, <<"home", "d">>,
     <<"home", "d", "e">>, <<"b">>}

\* What the theorems of FileSystemCrashProofs ask of the calls.
ASSUME CallsArePlain == PlainCalls /\ ShortFiles /\ ZeroGoesFirst /\ PlainInstall

=============================================================================
