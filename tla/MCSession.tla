------------------------------ MODULE MCSession ------------------------------
(***************************************************************************)
(* A small instance of Session for TLC.                                    *)
(***************************************************************************)
EXTENDS Session, FileSystemTree

MCInstallDirs == << <<"bin">>, <<"home">>, <<"home", "u">> >>

Relative(parts) == [absolute |-> FALSE, parts |-> parts]
Absolute(parts) == [absolute |-> TRUE, parts |-> parts]

Run(op, argument, content) ==
    [op |-> op, argument |-> argument, content |-> content]

\* "touch d" meets a directory, and after "rm a" takes the entry before it.
MCCommands ==
    {Run("create_dir", Relative(<<"d">>), << >>),
     Run("create_file", Relative(<<"a">>), << >>),
     Run("create_file", Relative(<<"d">>), << >>),
     Run("delete_file", Absolute(<<"home", "u", "a">>), << >>),
     Run("delete_file", Relative(<<"d">>), << >>)}

MCCdArguments ==
    {Relative(<<"d">>), Relative(<<"d", "..">>), Relative(<<"d", "">>),
     Absolute(<< >>), Absolute(<<"home">>),
     Absolute(<<"bin">>)}

\* With buffers of three bytes the first two are stored as the same line; in
\* four bits the third has the same hash as they have.
MCPasswords == {<<1, 2, 3>>, <<1, 2, 4>>, <<3>>, <<2>>}

MCPaths == {<< >>, <<"bin">>, <<"home">>, <<"home", "u">>}

\* What HomeAtLogin of SessionProofs asks of the installation.
ASSUME InstallIsPlain == PlainCalls /\ PlainInstall /\ HomeInstalled

=============================================================================
