------------------------------- MODULE Session -------------------------------
(***************************************************************************)
(* A user's sessions over the file system: the installer's dialogue        *)
(* (src/installer/installer.c), the choice kernel_main makes at each boot  *)
(* and its login (src/kernel/kernel.c), and the shell with its current     *)
(* directory (src/shell/shell.c and the commands of src/bin).              *)
(*                                                                         *)
(* A line is typed in one step here: Console shows what keyboard_getline   *)
(* makes of the keys.  The file system is that of FileSystem, all of whose *)
(* steps are steps of this module; what is added is the account beside the *)
(* superblock's counters, and the shell's string current_dir.              *)
(*                                                                         *)
(* A path as the shell holds it is the sequence of what lies between its   *)
(* slashes, not normalised: "/a/" is <<"a", "">> and "/" is << >>.  Paths  *)
(* are shorter than the 256 bytes of the buffers (bound MaxPath).          *)
(***************************************************************************)
EXTENDS FileSystem

CONSTANTS
    username,       \* the name given to the installer
    Logins,         \* what may be typed at "login: "
    Passwords,      \* what may be typed at a password prompt: character codes
    MAX_LINE,       \* size of the buffers of a name and a password (64)
    HASH_WORD,      \* 2^32: the hash is a uint32_t
    CdArguments,    \* arguments of cd
    Commands,       \* command lines that change files
    MaxPath         \* bound: parts of current_dir

NoPassword == << >>
Argument == [absolute : BOOLEAN, parts : Seq(Component \cup {NoName})]
Command == [op : {"create_dir", "create_file", "delete_file"},
            argument : Argument, content : Seq(Data)]

ASSUME SessionAssumption ==
    /\ username \in Name /\ "home" \in Name
    /\ Passwords \subseteq Seq(Nat)
    /\ MAX_LINE \in Nat \ {0}
    /\ HASH_WORD \in Nat \ {0}
    /\ CdArguments \subseteq Argument
    /\ Commands \subseteq Command
    /\ MaxPath \in Nat /\ MaxPath >= 2     \* room for /home/<username>

VARIABLES
    stage,          \* what the user is asked for
    password,       \* the installer's first answer, as stored
    chosen,         \* history: what was typed for the installed password
    account,        \* superblock.password_hash, a function of this number
    d_account,      \* its image on disk
    current_dir     \* of the shell

accounts == <<account, d_account>>
dialogue == <<stage, password, chosen, current_dir>>
sessionVars == <<vars, accounts, dialogue>>

Stage == {"start", "password", "confirm", "install",
          "login", "login_password", "shell"}
-----------------------------------------------------------------------------
(* Helpers of the code                                                     *)

\* hash * 33 + c in uint32_t.
simple_hash[line \in Seq(Nat)] ==
    IF line = << >> THEN 5381 % HASH_WORD
    ELSE (simple_hash[Parent(line)] * 33 + FileName(line)) % HASH_WORD

\* keyboard_getline_password, of which the installer and the kernel have one
\* each: what does not fit the buffer is not stored.
\* Mutants: one character too many; a larger buffer.
InstallerLineLonger(text) == SubSeq(text, 1, Lesser(Len(text), MAX_LINE))
InstallerLine(text) == SubSeq(text, 1, Lesser(Len(text), MAX_LINE - 1))
LoginLineWhole(text) == text
LoginLine(text) == SubSeq(text, 1, Lesser(Len(text), MAX_LINE - 1))

fs_verify_password(line) == simple_hash[line] = account

\* normalize_path: empty parts are dropped.
Normalized[parts \in Seq(Component \cup {NoName})] ==
    IF parts = << >> THEN << >>
    ELSE IF FileName(parts) = NoName THEN Normalized[Parent(parts)]
    ELSE Append(Normalized[Parent(parts)], FileName(parts))
FullPath(argument) ==
    IF argument.absolute THEN argument.parts
    ELSE current_dir \o argument.parts

UserHome == <<"home", username>>

\* The calls of FileSystem that this step's syncs of the superblock belong to.
SavesSuperblock ==
    \/ pc \in {"install_superblock", "file_superblock"}
    \/ pc = "install_dirs" /\ pc' = "off"
-----------------------------------------------------------------------------
SessionInit ==
    /\ Init
    /\ stage = "start"
    /\ password = NoPassword
    /\ chosen = NoPassword
    /\ account = 0
    /\ d_account = 0
    /\ current_dir = << >>

(* kernel_main: fs_check_installed, then the login or the installer        *)

BootToLogin ==
    /\ stage = "start"
    /\ BootInstalled
    /\ stage' = "login"
    /\ account' = d_account
    /\ UNCHANGED <<d_account, password, chosen, current_dir>>

BootToInstaller ==
    /\ stage = "start"
    /\ pc = "boot" /\ d_superblock.installed # 1
    /\ stage' = "password"
    /\ UNCHANGED <<vars, accounts, password, chosen, current_dir>>

(* installer_run: a password twice, until both lines are the same          *)

ChoosePassword(text) ==
    /\ stage = "password"
    /\ password' = InstallerLine(text)
    /\ chosen' = text
    /\ stage' = "confirm"
    /\ UNCHANGED <<vars, accounts, current_dir>>

ConfirmPassword(text) ==
    /\ stage = "confirm"
    /\ UNCHANGED <<d_account, current_dir>>
    /\ password' = NoPassword
    /\ \/ /\ InstallerLine(text) # password
          /\ stage' = "password"
          /\ chosen' = NoPassword
          /\ UNCHANGED <<vars, account>>
       \/ /\ InstallerLine(text) = password
          /\ InstallRoot
          /\ account' = simple_hash[password]
          /\ stage' = "install"
          /\ UNCHANGED chosen

\* The rest of fs_install, up to the menu after it.
InstallStep ==
    /\ stage = "install"
    /\ Install \/ CreateDir
    /\ d_account' = IF SavesSuperblock THEN account ELSE d_account
    /\ account' = IF pc = "install_bitmap" THEN d_account ELSE account
    /\ stage' = IF pc' = "off" THEN "start" ELSE stage
    /\ UNCHANGED <<password, chosen, current_dir>>

TurnOn == stage = "start" /\ PowerOn /\ UNCHANGED <<accounts, dialogue>>

(* do_login: after a wrong name or password it calls itself                *)

LoginName(name) ==
    /\ stage = "login"
    /\ stage' = IF name = username THEN "login_password" ELSE "login"
    /\ UNCHANGED <<vars, accounts, password, chosen, current_dir>>

shell_init == current_dir' = IF fs_dir_exists(UserHome) THEN UserHome ELSE << >>

LoginPassword(text) ==
    /\ stage = "login_password"
    /\ UNCHANGED <<vars, accounts, password, chosen>>
    /\ \/ /\ fs_verify_password(LoginLine(text))
          /\ shell_init
          /\ stage' = "shell"
       \/ /\ ~ fs_verify_password(LoginLine(text))
          /\ stage' = "login"
          /\ UNCHANGED current_dir

(* shell_run                                                               *)

AtPrompt == stage = "shell" /\ pc = "idle"

\* touch, echo with ">", mkdir and rm hand the file system a whole path.
RunCommand(command) ==
    /\ AtPrompt
    /\ Call([op |-> command.op, content |-> command.content,
             path |-> Normalized[FullPath(command.argument)]])
    /\ UNCHANGED <<accounts, dialogue>>

CommandStep ==
    /\ stage = "shell"
    /\ CreateDir \/ CreateFile \/ DeleteFile \/ Return
    /\ d_account' = IF SavesSuperblock THEN account ELSE d_account
    /\ UNCHANGED <<account, dialogue>>

\* fs_change_dir("..") cuts the string at its last slash.  Mutant: the search
\* stops at the first.
CutAtFirstSlash(dir) == << >>
CutAtLastSlash(dir) == SubSeq(dir, 1, Len(dir) - 1)

cd_dotdot ==
    /\ AtPrompt
    /\ current_dir' = IF current_dir = << >> THEN << >>
                      ELSE CutAtLastSlash(current_dir)
    /\ UNCHANGED <<vars, accounts, stage, password, chosen>>

\* fs_change_dir of any other path keeps the string as it was put together.
EnterAnything(argument) == Exists(Normalized[FullPath(argument)])   \* mutant
MayEnter(argument) == fs_dir_exists(Normalized[FullPath(argument)])

cd(argument) ==
    /\ AtPrompt
    /\ argument.absolute \/ argument.parts # <<DotDot>>
    /\ Len(FullPath(argument)) <= MaxPath
    /\ current_dir' = IF MayEnter(argument) THEN FullPath(argument)
                      ELSE current_dir
    /\ UNCHANGED <<vars, accounts, stage, password, chosen>>

cd_home ==
    /\ AtPrompt
    /\ current_dir' = IF fs_dir_exists(UserHome) THEN UserHome ELSE current_dir
    /\ UNCHANGED <<vars, accounts, stage, password, chosen>>

\* reboot and shutdown
Leave_shell ==
    /\ stage = "shell"
    /\ SwitchOff
    /\ stage' = "start"
    /\ current_dir' = << >>
    /\ UNCHANGED <<accounts, password, chosen>>

-----------------------------------------------------------------------------
Shell == \/ \E command \in Commands : RunCommand(command)
         \/ \E argument \in CdArguments : cd(argument)
         \/ cd_dotdot \/ cd_home \/ CommandStep \/ Leave_shell

SessionNext ==
    \/ BootToLogin \/ BootToInstaller \/ TurnOn
    \/ \E text \in Passwords : ChoosePassword(text) \/ ConfirmPassword(text)
    \/ InstallStep
    \/ \E name \in Logins : LoginName(name)
    \/ \E text \in Passwords : LoginPassword(text)
    \/ Shell

SessionSpec == SessionInit /\ [][SessionNext]_sessionVars

-----------------------------------------------------------------------------
(* Properties                                                              *)

(***************************************************************************)
(* The type invariant: the stages of the dialogue fit what the file system *)
(* is doing, and current_dir stays within its buffer.                      *)
(***************************************************************************)
SessionTypeOK ==
    /\ stage \in Stage
    /\ password \in Seq(Nat) /\ Len(password) < MAX_LINE
    /\ chosen \in Passwords \cup {NoPassword}
    /\ account \in 0 .. HASH_WORD - 1 /\ d_account \in 0 .. HASH_WORD - 1
    /\ current_dir \in Seq(Component \cup {NoName}) /\ Len(current_dir) <= MaxPath
    /\ stage \in {"login", "login_password"} => pc = "idle"
    /\ stage \in {"password", "confirm"} => pc = "boot"
    /\ stage = "start" => pc \in {"boot", "off"}

(***************************************************************************)
(* The installer and the login each have their own keyboard_getline_       *)
(* password and buffer, and the hash travels through the superblock on     *)
(* disk and any number of reboots: whatever was typed for the password at  *)
(* installation is accepted at every login, also when it was cut to the    *)
(* buffer.                                                                 *)
(***************************************************************************)
ChosenPasswordOpens ==
    stage = "login_password" => fs_verify_password(LoginLine(chosen))

\* Two entries of one directory have this name: the first hides the other.
Hidden(d, name) ==
    \E s, t \in UsedEntries(d) :
        s # t /\ dir_entries(d)[s].name = name /\ dir_entries(d)[t].name = name

\* On its way from the root the path meets such a pair.
Ambiguous(path) ==
    \E k \in 1 .. Len(path) :
        LET d == find_inode_by_path(Prefix(path, k - 1))
        IN  d \in Directories /\ Hidden(d, path[k])

\* The installer's list of directories has the user's home.
HomeInstalled == \E k \in DOMAIN InstallDirs : InstallDirs[k] = UserHome

(***************************************************************************)
(* shell_init and SyncedAtRest of the file system: the home directory that *)
(* fs_install made is there at every login, whatever calls and reboots     *)
(* came in between, unless a file has been put in front of one of its      *)
(* names; and every session starts in it.                                  *)
(***************************************************************************)
SessionStartsAtHome ==
    [][(stage = "login_password" /\ stage' = "shell")
        => current_dir' = UserHome \/ Ambiguous(UserHome)]_sessionVars

Here == Normalized[current_dir]

(***************************************************************************)
(* The shell keeps a string and not an inode, and nothing tells it when    *)
(* the tree changes.  There is no rmdir, but fs_delete_file frees inodes   *)
(* that the next call reuses, and fs_create_file puts a file beside a      *)
(* directory of the same name, from where it can hide it (touch a; mkdir   *)
(* d; rm a; touch d).  Nothing else can take the current directory away    *)
(* or put another one in its place.                                        *)
(***************************************************************************)
CurrentDirStays ==
    [][(stage = "shell" /\ stage' = "shell" /\ current_dir' = current_dir)
       => \/ find_inode_by_path(Here)' = find_inode_by_path(Here)
          \/ Ambiguous(Here) \/ Ambiguous(Here)']_sessionVars

(***************************************************************************)
(* pwd prints a directory: every command that takes a relative path finds  *)
(* a directory at current_dir, up to the same exception.                   *)
(***************************************************************************)
CurrentDirExists ==
    stage = "shell" => fs_dir_exists(Here) \/ Ambiguous(Here)

(***************************************************************************)
(* cd ".." cuts a string, while mkdir has written the parent's inode into  *)
(* the entry ".." of the new directory.  From a path of names alone the    *)
(* two agree after any history: cd ".." goes where the entry points.  (From  *)
(* "d/.." or "d/" it does not: there the string is not the directory's     *)
(* own path.  And a directory that was given block 0 has no entries.)      *)
(***************************************************************************)
DotDotIsParent ==
    [][(/\ cd_dotdot /\ current_dir # << >>
        /\ \A k \in 1 .. Len(current_dir) : current_dir[k] \in Name
        /\ find_inode_by_path(Here) \in Directories)
       => find_inode_by_path(Here)'
            = dir_lookup[find_inode_by_path(Here)][DotDot]]_sessionVars

=============================================================================
