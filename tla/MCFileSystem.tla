----------------------------- MODULE MCFileSystem -----------------------------
(***************************************************************************)
(* Small instances of FileSystem for TLC.                                  *)
(***************************************************************************)
EXTENDS FileSystem

Mkdir(path) == [op |-> "create_dir", path |-> path, content |-> << >>]
Put(path, content) == [op |-> "create_file", path |-> path, content |-> content]
Rm(path) == [op |-> "delete_file", path |-> path, content |-> << >>]

\* "/bin" takes block 0, as in the code.
MCInstallDirs == << <<"bin">>, <<"home">> >>

\* Every operation on files, directories and missing paths, with the calls
\* that collide: a file where a directory is and the reverse.
MCRequests ==
    {Mkdir(<<"home", "a", "b">>),
     Put(<<"home", "a">>, <<"x">>), Put(<<"home", "b">>, <<"x", "y", "x">>),
     Put(<<"b">>, <<"x", "x", "y", "y">>), Mkdir(<< >>),
     Put(<<"bin", "a">>, << >>), Put(<<"a", "b">>, <<"y">>),
     Put(<<"home", "a", "b">>, <<"y">>), Rm(<<"home", "a">>)}

=============================================================================
