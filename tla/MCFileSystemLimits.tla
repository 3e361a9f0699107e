-------------------------- MODULE MCFileSystemLimits --------------------------
(***************************************************************************)
(* FileSystem at the three limits where the code and its README disagree:  *)
(* the directory that got block 0, the entry past the sector, and the file *)
(* past its direct blocks.                                                 *)
(***************************************************************************)
EXTENDS FileSystem

Mkdir(path) == [op |-> "create_dir", path |-> path, content |-> << >>]
Put(path, content) == [op |-> "create_file", path |-> path, content |-> content]

MCInstallDirs == << <<"bin">>, <<"home">> >>

TouchInBin == {Put(<<"bin", "a">>, << >>)}
MkdirInHome == {Mkdir(<<"home", n>>) : n \in {"a", "b", "c"}}
LongFile == {Put(<<"home", "a">>, <<"x", "y", "x">>)}

=============================================================================
