----------------------------- MODULE SessionProofs -----------------------------
(***************************************************************************)
(* Theorems about sessions, for all names, passwords, buffer sizes, hash   *)
(* widths, commands and sizes of the file system: the password chosen at   *)
(* installation opens every login, the home directory made there is where  *)
(* a session starts, and the shell's current directory is there and has    *)
(* its parent at "..".                                                     *)
(***************************************************************************)
EXTENDS Session, FileSystemPathProofs

-----------------------------------------------------------------------------
(* The password.  Nothing is needed of the hash function but that it is    *)
(* one: the proof follows the account through the dialogue, the            *)
(* superblock's three ways to the disk and the boot that brings it back.   *)

\* The hash that a login with the chosen password computes.
ChosenAccount == simple_hash[LoginLine(chosen)]

AccountInv ==
    /\ d_superblock.installed = 1 => d_account = ChosenAccount
    /\ stage \in {"install", "login", "login_password", "shell"} =>
           account = ChosenAccount
    /\ stage = "confirm" => password = InstallerLine(chosen)
    /\ stage \in {"password", "confirm"} => d_superblock.installed # 1
    /\ (stage = "install" /\ pc \in {"install_inodes", "install_bitmap"}) =>
           d_account = ChosenAccount

-----------------------------------------------------------------------------
(* Where the file system saves its superblock                              *)

LeavesSuperblock ==
    UNCHANGED d_superblock /\ pc' \notin {"install_inodes", "install_bitmap"}

LEMMA CallEnds ==
    /\ \A r : Leave(r) => pc' \in {"install_dirs", "return"}
    /\ CreateDirReturnsOk => pc' \in {"install_dirs", "return", "parent_made"}
    /\ \A r : DeleteReturns(r) => pc' \in {"install_dirs", "return", "file_alloc"}
BY DEF Leave, CreateDirReturnsOk, DeleteReturns, Goto

\* One write of a block leaves the tables alone.
LEMMA LinkLeaves ==
    ASSUME NEW name, NEW label, LinkEntry(name, label),
           label \in {"dir_inodes", "file_inodes"}
    PROVE  LeavesSuperblock
BY CallEnds DEF LinkEntry, GiveBack, Goto, disk, metadata, LeavesSuperblock

LEMMA CreateDirLeaves == CreateDir => LeavesSuperblock
<1> SUFFICES ASSUME CreateDir PROVE LeavesSuperblock
  OBVIOUS
<1>1. CASE CreateDirEnter
  BY <1>1, CallEnds DEF CreateDirEnter, Goto, disk, metadata, LeavesSuperblock
<1>2. CASE CreateDirAlloc
  BY <1>2, CallEnds DEF CreateDirAlloc, Goto, disk, metadata, LeavesSuperblock
<1>3. CASE CreateDirLink
  BY <1>3, LinkLeaves DEF CreateDirLink
<1>4. CASE CreateDirSyncInodes
  BY <1>4 DEF CreateDirSyncInodes, Goto, LeavesSuperblock
<1>5. CASE CreateDirSyncBitmap
  BY <1>5, CallEnds DEF CreateDirSyncBitmap, Goto, LeavesSuperblock
<1> QED
  BY <1>1, <1>2, <1>3, <1>4, <1>5 DEF CreateDir

LEMMA DeleteFileLeaves == DeleteFile => LeavesSuperblock
<1> SUFFICES ASSUME DeleteFile PROVE LeavesSuperblock
  OBVIOUS
<1>1. CASE DeleteFileEnter
  BY <1>1, CallEnds DEF DeleteFileEnter, Goto, disk, metadata, LeavesSuperblock
<1>2. CASE DeleteSyncInodes
  BY <1>2 DEF DeleteSyncInodes, Goto, LeavesSuperblock
<1>3. CASE DeleteSyncBitmap
  BY <1>3, CallEnds DEF DeleteSyncBitmap, LeavesSuperblock
<1> QED
  BY <1>1, <1>2, <1>3 DEF DeleteFile

LEMMA CreateFileLeaves == CreateFile => LeavesSuperblock \/ pc = "file_superblock"
<1> SUFFICES ASSUME CreateFile, pc # "file_superblock" PROVE LeavesSuperblock
  OBVIOUS
<1>1. CASE CreateFileEnter
  BY <1>1, CallEnds DEF CreateFileEnter, Goto, disk, metadata, LeavesSuperblock
<1>2. CASE CreateFileParent
  BY <1>2, CallEnds DEF CreateFileParent, Goto, disk, metadata, LeavesSuperblock
<1>3. CASE CreateFileAlloc
  BY <1>3, CallEnds DEF CreateFileAlloc, Goto, disk, metadata, LeavesSuperblock
<1>4. CASE CreateFileData
  BY <1>4, CallEnds DEF CreateFileData, GiveBack, disk, metadata, LeavesSuperblock
<1>5. CASE CreateFileLink
  BY <1>5, LinkLeaves DEF CreateFileLink
<1>6. CASE CreateFileSyncInodes
  BY <1>6 DEF CreateFileSyncInodes, Goto, LeavesSuperblock
<1>7. CASE CreateFileSyncBitmap
  BY <1>7 DEF CreateFileSyncBitmap, Goto, LeavesSuperblock
<1>8. CASE CreateFileSyncSuperblock
  BY <1>8 DEF CreateFileSyncSuperblock
<1> QED
  BY <1>1, <1>2, <1>3, <1>4, <1>5, <1>6, <1>7, <1>8 DEF CreateFile

-----------------------------------------------------------------------------
(* The invariant                                                           *)

LEMMA AccountInit == SessionInit => AccountInv
BY DEF SessionInit, Init, ZeroSuperblock, AccountInv

\* The steps between the first line and the menu at the end of fs_install.
LEMMA AccountInstall == AccountInv /\ InstallStep => AccountInv'
<1> SUFFICES ASSUME AccountInv, InstallStep PROVE AccountInv'
  OBVIOUS
<1>1. /\ stage = "install" /\ stage' \in {"install", "start"}
      /\ account = ChosenAccount /\ ChosenAccount' = ChosenAccount
      /\ password' = password /\ chosen' = chosen
  BY DEF InstallStep, AccountInv, ChosenAccount
<1>2. CASE InstallSyncSuperblock
  <2>1. pc = "install_superblock" /\ pc' = "install_inodes"
    BY <1>2 DEF InstallSyncSuperblock, Goto
  <2>2. d_account' = ChosenAccount /\ account' = account
    BY <1>1, <2>1 DEF InstallStep, SavesSuperblock
  <2> QED
    BY <1>1, <2>1, <2>2 DEF AccountInv
<1>3. CASE InstallSyncInodes
  <2>1. pc = "install_inodes" /\ pc' = "install_bitmap" /\ UNCHANGED d_superblock
    BY <1>3 DEF InstallSyncInodes, Goto
  <2>2. UNCHANGED accounts
    BY <2>1 DEF InstallStep, SavesSuperblock, accounts
  <2> QED
    BY <1>1, <2>1, <2>2 DEF AccountInv, accounts
<1>4. CASE InstallSyncBitmap
  <2>1. pc = "install_bitmap" /\ pc' = "install_dirs" /\ UNCHANGED d_superblock
    BY <1>4 DEF InstallSyncBitmap, Goto
  <2>2. account' = d_account /\ d_account' = d_account
    BY <2>1 DEF InstallStep, SavesSuperblock
  <2> QED
    BY <1>1, <2>1, <2>2 DEF AccountInv
<1>5. CASE InstallNextDir
  <2>1. pc = "install_dirs" /\ pc' = "create_dir" /\ UNCHANGED d_superblock
    BY <1>5 DEF InstallNextDir, Goto, disk, metadata
  <2>2. UNCHANGED accounts
    BY <2>1 DEF InstallStep, SavesSuperblock, accounts
  <2> QED
    BY <1>1, <2>1, <2>2 DEF AccountInv, accounts
<1>6. CASE InstallFinish
  <2>1. pc = "install_dirs" /\ pc' = "off"
    BY <1>6 DEF InstallFinish, Goto
  <2>2. d_account' = ChosenAccount /\ account' = account
    BY <1>1, <2>1 DEF InstallStep, SavesSuperblock
  <2> QED
    BY <1>1, <2>1, <2>2 DEF AccountInv
<1>7. CASE CreateDir
  <2>1. LeavesSuperblock
    BY <1>7, CreateDirLeaves
  <2>2. /\ pc \in {"create_dir", "dir_alloc", "dir_link", "dir_inodes", "dir_bitmap"}
    BY <1>7 DEF CreateDir, CreateDirEnter, CreateDirAlloc, CreateDirLink,
       CreateDirSyncInodes, CreateDirSyncBitmap
  <2>3. UNCHANGED accounts
    BY <2>2 DEF InstallStep, SavesSuperblock, accounts
  <2> QED
    BY <1>1, <2>1, <2>3 DEF AccountInv, LeavesSuperblock, accounts
<1> QED
  BY <1>2, <1>3, <1>4, <1>5, <1>6, <1>7 DEF InstallStep, Install

\* The steps of a command: a superblock saved takes the account with it.
LEMMA AccountCommand == AccountInv /\ CommandStep => AccountInv'
<1> SUFFICES ASSUME AccountInv, CommandStep PROVE AccountInv'
  OBVIOUS
<1>1. /\ stage = "shell" /\ stage' = "shell"
      /\ account = ChosenAccount /\ account' = account
      /\ ChosenAccount' = ChosenAccount
  BY DEF CommandStep, dialogue, AccountInv, ChosenAccount
<1>2. CASE pc = "file_superblock"
  <2>1. d_account' = ChosenAccount
    BY <1>1, <1>2 DEF CommandStep, SavesSuperblock
  <2> QED
    BY <1>1, <2>1 DEF AccountInv
<1>3. CASE pc # "file_superblock"
  <2>1. Return => UNCHANGED d_superblock
    BY DEF Return, disk, metadata
  <2>2. UNCHANGED d_superblock
    BY <1>3, <2>1, CreateDirLeaves, CreateFileLeaves, DeleteFileLeaves
       DEF CommandStep, LeavesSuperblock
  <2>3. d_account' \in {account, d_account}
    BY DEF CommandStep
  <2> QED
    BY <1>1, <2>2, <2>3 DEF AccountInv
<1> QED
  BY <1>2, <1>3

\* Calls of the file system's actions that leave the superblock on disk alone.
LEMMA OthersLeave ==
    /\ BootInstalled \/ InstallRoot \/ PowerOn \/ SwitchOff => UNCHANGED d_superblock
    /\ \A request : Call(request) => UNCHANGED d_superblock
BY DEF BootInstalled, InstallRoot, PowerOn, SwitchOff, Call, disk, metadata

LEMMA AccountNext == AccountInv /\ [SessionNext]_sessionVars => AccountInv'
<1> SUFFICES ASSUME AccountInv, [SessionNext]_sessionVars PROVE AccountInv'
  OBVIOUS
<1> USE DEF AccountInv, ChosenAccount
<1>1. CASE BootToLogin
  <2>1. d_superblock.installed = 1 /\ UNCHANGED d_superblock
    BY <1>1, OthersLeave DEF BootToLogin, BootInstalled
  <2> QED
    BY <1>1, <2>1 DEF BootToLogin
<1>2. CASE BootToInstaller
  BY <1>2 DEF BootToInstaller, vars, disk, metadata, accounts
<1>3. CASE TurnOn
  BY <1>3, OthersLeave DEF TurnOn, accounts, dialogue
<1>4. ASSUME NEW text \in Passwords, ChoosePassword(text) PROVE AccountInv'
  BY <1>4 DEF ChoosePassword, vars, disk, metadata, accounts
<1>5. ASSUME NEW text \in Passwords, ConfirmPassword(text) PROVE AccountInv'
  <2>1. CASE stage' = "password"
    BY <1>5, <2>1 DEF ConfirmPassword, vars, disk, metadata
  <2>2. CASE stage' # "password"
    <3>1. /\ stage = "confirm" /\ stage' = "install" /\ chosen' = chosen
          /\ account' = simple_hash[InstallerLine(chosen)]
          /\ InstallRoot /\ d_account' = d_account
      BY <1>5, <2>2 DEF ConfirmPassword
    <3>2. UNCHANGED d_superblock /\ pc' = "install_superblock"
      BY <3>1, OthersLeave DEF InstallRoot, Goto
    <3> QED
      BY <3>1, <3>2 DEF InstallerLine, LoginLine
  <2> QED
    BY <2>1, <2>2
<1>6. CASE InstallStep
  BY <1>6, AccountInstall
<1>7. ASSUME NEW name \in Logins, LoginName(name) PROVE AccountInv'
  BY <1>7 DEF LoginName, vars, disk, metadata, accounts
<1>8. ASSUME NEW text \in Passwords, LoginPassword(text) PROVE AccountInv'
  BY <1>8 DEF LoginPassword, vars, disk, metadata, accounts
<1>9. ASSUME NEW command \in Commands, RunCommand(command) PROVE AccountInv'
  BY <1>9, OthersLeave DEF RunCommand, AtPrompt, accounts, dialogue
<1>10. ASSUME NEW argument \in CdArguments, cd(argument) PROVE AccountInv'
  BY <1>10 DEF cd, AtPrompt, vars, disk, metadata, accounts
<1>11. CASE cd_dotdot \/ cd_home
  BY <1>11 DEF cd_dotdot, cd_home, AtPrompt, vars, disk, metadata, accounts
<1>12. CASE CommandStep
  BY <1>12, AccountCommand
<1>13. CASE Leave_shell
  BY <1>13, OthersLeave DEF Leave_shell, accounts
<1>14. CASE UNCHANGED sessionVars
  BY <1>14 DEF sessionVars, vars, disk, metadata, control, accounts, dialogue
<1> QED
  BY <1>1, <1>2, <1>3, <1>4, <1>5, <1>6, <1>7, <1>8, <1>9, <1>10, <1>11, <1>12,
     <1>13, <1>14 DEF SessionNext, Shell

(***************************************************************************)
(* do_login accepts what was typed for the password at installation, cut   *)
(* or not, after any number of commands, syncs and reboots.                *)
(***************************************************************************)
THEOREM ChosenPasswordAccepted == SessionSpec => []ChosenPasswordOpens
<1>1. AccountInv => ChosenPasswordOpens
  BY DEF AccountInv, ChosenAccount, ChosenPasswordOpens, fs_verify_password
<1> QED
  BY <1>1, AccountInit, AccountNext, PTL DEF SessionSpec

-----------------------------------------------------------------------------
(* The recursive helpers are what their definitions say                    *)

LEMMA HashType ==
    ASSUME NEW line \in Seq(Nat)
    PROVE  simple_hash[line] \in 0 .. HASH_WORD - 1
<1> DEFINE Hash == 0 .. HASH_WORD - 1
           Code == Nat
           first == 5381 % HASH_WORD
           Mix(h, c) == (h * 33 + c) % HASH_WORD
           step == [h \in Hash |-> [c \in Code |-> Mix(h, c)]]
           Body(f) == [text \in Seq(Code) |->
                          IF text = << >> THEN first
                          ELSE Mix(f[Parent(text)], FileName(text))]
<1>1. HASH_WORD \in Nat \ {0} /\ \A n \in Nat : n % HASH_WORD \in Hash
  BY SessionAssumption
<1>2. \A h \in Hash : \A c \in Nat : h * 33 + c \in Nat
  BY <1>1
<1>3. first \in Hash /\ \A h \in Hash : \A c \in Code : Mix(h, c) \in Hash
  <2> HIDE DEF Hash
  <2>1. first \in Hash
    <3> DEFINE n == 5381
    <3>1. n \in Nat
      OBVIOUS
    <3> HIDE DEF n
    <3>2. n % HASH_WORD \in Hash
      BY <1>1, <3>1
    <3> HIDE DEF Hash
    <3> QED
      BY <3>2 DEF n
  <2>2. ASSUME NEW h \in Hash, NEW c \in Nat PROVE Mix(h, c) \in Hash
    <3>1. h * 33 + c \in Nat
      BY <1>2
    <3> DEFINE k == h * 33 + c
    <3> HIDE DEF k
    <3>2. k % HASH_WORD \in Hash
      BY <1>1, <3>1 DEF k
    <3> QED
      BY <3>2 DEF k
  <2> HIDE DEF Mix, first
  <2> QED
    BY <2>1, <2>2
<1>4. simple_hash = CHOOSE f : f = Body(f)
  BY DEF simple_hash
<1> HIDE DEF Mix, first, Hash, Code
<1>5. step \in Steps(Code, Hash)
  BY <1>3 DEF Steps
<1>6. \A h \in Hash : \A c \in Code : step[h][c] = Mix(h, c)
  OBVIOUS
<1> HIDE DEF step
<1>7. PICK g \in [Seq(Code) -> Hash] : \A text \in Seq(Code) :
         g[text] = IF text = << >> THEN first
                   ELSE step[g[Parent(text)]][FileName(text)]
  <2> HIDE DEF Body
  <2> QED
    BY <1>3, <1>5, SeqRecursion
<1>8. g = Body(g)
  <2>1. ASSUME NEW text \in Seq(Code), text # << >>
        PROVE  Parent(text) \in Seq(Code) /\ FileName(text) \in Code
    BY <2>1, ParentSeq
  <2>2. ASSUME NEW text \in Seq(Code)
        PROVE  g[text] = IF text = << >> THEN first
                         ELSE Mix(g[Parent(text)], FileName(text))
    <3>1. CASE text = << >>
      BY <1>7, <3>1
    <3>2. CASE text # << >>
      BY <1>6, <1>7, <2>1, <3>2
    <3> QED
      BY <3>1, <3>2
  <2> QED
    BY <1>7, <2>2
<1>9. simple_hash = Body(simple_hash)
  BY <1>4, <1>8
<1>10. \A text \in Seq(Code) :
          simple_hash[text] = IF text = << >> THEN first
                              ELSE Mix(simple_hash[Parent(text)], FileName(text))
  BY <1>9
<1> HIDE DEF Body
<1> DEFINE P == {text \in Seq(Code) : simple_hash[text] \in Hash}
<1>11. << >> \in P
  BY <1>3, <1>10, EmptySeq
<1>12. ASSUME NEW text \in Seq(Code), text # << >>, Parent(text) \in P
       PROVE  text \in P
  BY <1>3, <1>10, <1>12, ParentSeq
<1> HIDE DEF P
<1>13. line \in P
  <2>1. line \in Seq(Code)
    BY DEF Code
  <2> QED
    BY <1>11, <1>12, <2>1, SeqInduction
<1> QED
  BY <1>13 DEF P, Hash

Part == Component \cup {NoName}

LEMMA NormalizedStep ==
    ASSUME NEW parts \in Seq(Part)
    PROVE  /\ Normalized[parts] \in Path
           /\ Normalized[parts] =
                  IF parts = << >> THEN << >>
                  ELSE IF FileName(parts) = NoName THEN Normalized[Parent(parts)]
                  ELSE Append(Normalized[Parent(parts)], FileName(parts))
<1> DEFINE step == [p \in Path |-> [c \in Part |-> IF c = NoName THEN p ELSE Append(p, c)]]
           Body(f) == [q \in Seq(Part) |->
                          IF q = << >> THEN << >>
                          ELSE IF FileName(q) = NoName THEN f[Parent(q)]
                          ELSE Append(f[Parent(q)], FileName(q))]
<1>1. \A p \in Path : \A c \in Part : c # NoName => Append(p, c) \in Path
  BY AppendPath DEF Part
<1>2. step \in Steps(Part, Path) /\ << >> \in Path
  BY <1>1, EmptySeq DEF Steps, Path
<1>3. \A p \in Path : \A c \in Part : step[p][c] = IF c = NoName THEN p ELSE Append(p, c)
  OBVIOUS
<1> HIDE DEF step
<1>4. PICK g \in [Seq(Part) -> Path] : \A q \in Seq(Part) :
         g[q] = IF q = << >> THEN << >> ELSE step[g[Parent(q)]][FileName(q)]
  <2> DEFINE top == << >>
  <2> HIDE DEF Body
  <2>1. ASSUME NEW S, NEW R, S = Part, R = Path
        PROVE  \E g \in [Seq(S) -> R] : \A q \in Seq(S) :
                   g[q] = IF q = << >> THEN top ELSE step[g[Parent(q)]][FileName(q)]
    <3>1. top \in R /\ step \in Steps(S, R)
      BY <1>2, <2>1
    <3> HIDE DEF top
    <3> QED
      BY <3>1, SeqRecursion
  <2> QED
    BY <2>1
<1>5. g = Body(g)
  <2>1. ASSUME NEW q \in Seq(Part), q # << >>
        PROVE  Parent(q) \in Seq(Part) /\ FileName(q) \in Part
    BY <2>1, ParentSeq
  <2>2. ASSUME NEW q \in Seq(Part)
        PROVE  g[q] = IF q = << >> THEN << >>
                      ELSE IF FileName(q) = NoName THEN g[Parent(q)]
                      ELSE Append(g[Parent(q)], FileName(q))
    BY <1>3, <1>4, <2>1
  <2> QED
    BY <1>4, <2>2
<1>6. Normalized = CHOOSE f : f = Body(f)
  BY DEF Normalized, Part
<1>7. Normalized = Body(Normalized)
  BY <1>5, <1>6
<1>8. \A q \in Seq(Part) :
         Normalized[q] = IF q = << >> THEN << >>
                         ELSE IF FileName(q) = NoName THEN Normalized[Parent(q)]
                         ELSE Append(Normalized[Parent(q)], FileName(q))
  BY <1>7
<1> HIDE DEF Body
<1> DEFINE P == {q \in Seq(Part) : Normalized[q] \in Path}
<1>9. << >> \in P
  BY <1>2, <1>8, EmptySeq
<1>10. ASSUME NEW q \in Seq(Part), q # << >>, Parent(q) \in P PROVE q \in P
  BY <1>1, <1>8, <1>10, ParentSeq
<1> HIDE DEF P
<1>11. parts \in P
  BY <1>9, <1>10, SeqInduction
<1> QED
  BY <1>8, <1>11 DEF P

LEMMA FullPathType ==
    ASSUME SessionTypeOK, NEW argument \in Argument
    PROVE  FullPath(argument) \in Seq(Part)
<1>1. argument.parts \in Seq(Part) /\ current_dir \in Seq(Part)
  BY DEF Argument, SessionTypeOK, Part
<1>2. current_dir \o argument.parts \in Seq(Part)
  BY <1>1, ConcatProperties
<1> QED
  BY <1>1, <1>2 DEF FullPath

\* What the two keyboard_getline_password keep of a line.
LEMMA LineType ==
    ASSUME NEW text \in Seq(Nat)
    PROVE  InstallerLine(text) \in Seq(Nat) /\ Len(InstallerLine(text)) < MAX_LINE
<1> DEFINE n == Lesser(Len(text), MAX_LINE - 1)
<1>1. Len(text) \in Nat /\ MAX_LINE \in Nat \ {0}
  BY LenProperties, SessionAssumption
<1>2. n \in Nat /\ n <= Len(text) /\ n < MAX_LINE
  BY <1>1 DEF Lesser
<1> HIDE DEF n
<1>3. \A k \in 1 .. n : text[k] \in Nat
  BY <1>1, <1>2, LenProperties
<1>4. /\ SubSeq(text, 1, n) \in Seq(Nat)
      /\ Len(SubSeq(text, 1, n)) = IF 1 <= n THEN n - 1 + 1 ELSE 0
  BY <1>2, <1>3, SubSeqProperties
<1>5. Len(SubSeq(text, 1, n)) < MAX_LINE
  BY <1>1, <1>2, <1>4
<1> QED
  BY <1>4, <1>5 DEF InstallerLine, n

-----------------------------------------------------------------------------
(* Types                                                                   *)

LEMMA HomeType == UserHome \in Path /\ UserHome \in Seq(Part) /\ Len(UserHome) = 2
<1>1. "home" \in Component /\ username \in Component
  BY SessionAssumption DEF Component
<1>2. UserHome \in Seq(Component) /\ Len(UserHome) = 2
  BY <1>1 DEF UserHome
<1>3. UserHome \in Seq(Part)
  BY <1>1 DEF UserHome, Part
<1> QED
  BY <1>2, <1>3 DEF Path

LEMMA SessionTypeInit == SessionInit => SessionTypeOK
<1> SUFFICES ASSUME SessionInit PROVE SessionTypeOK
  OBVIOUS
<1>1. NoPassword \in Seq(Nat) /\ Len(NoPassword) < MAX_LINE
  BY SessionAssumption, EmptySeq DEF NoPassword
<1>2. << >> \in Seq(Part) /\ Len(<< >>) <= MaxPath
  BY SessionAssumption, EmptySeq
<1>3. 0 \in 0 .. HASH_WORD - 1
  BY SessionAssumption
<1> QED
  BY <1>1, <1>2, <1>3 DEF SessionInit, Init, SessionTypeOK, Stage, Part

LEMMA SessionTypeNext == SessionTypeOK /\ [SessionNext]_sessionVars => SessionTypeOK'
<1> SUFFICES ASSUME SessionTypeOK, [SessionNext]_sessionVars PROVE SessionTypeOK'
  OBVIOUS
<1> DEFINE Typed(l, t, a, e, dir) ==
               /\ l \in Seq(Nat) /\ Len(l) < MAX_LINE
               /\ t \in Passwords \cup {NoPassword}
               /\ a \in 0 .. HASH_WORD - 1 /\ e \in 0 .. HASH_WORD - 1
               /\ dir \in Seq(Part) /\ Len(dir) <= MaxPath
<1>1. Typed(password, chosen, account, d_account, current_dir)
  BY DEF SessionTypeOK, Part
<1> SUFFICES /\ Typed(password', chosen', account', d_account', current_dir')
             /\ stage' \in Stage
             /\ stage' \in {"login", "login_password"} => pc' = "idle"
             /\ stage' \in {"password", "confirm"} => pc' = "boot"
             /\ stage' = "start" => pc' \in {"boot", "off"}
  BY DEF SessionTypeOK, Part
<1>2. /\ stage \in Stage
      /\ stage \in {"login", "login_password"} => pc = "idle"
      /\ stage \in {"password", "confirm"} => pc = "boot"
      /\ stage = "start" => pc \in {"boot", "off"}
  BY DEF SessionTypeOK
<1>3. NoPassword \in Seq(Nat) /\ Len(NoPassword) < MAX_LINE
  BY SessionAssumption, EmptySeq DEF NoPassword
<1>4. << >> \in Seq(Part) /\ Len(<< >>) <= MaxPath
  BY SessionAssumption, EmptySeq
<1>5. UserHome \in Seq(Part) /\ Len(UserHome) <= MaxPath
  BY SessionAssumption, HomeType
<1>6. UNCHANGED vars => pc' = pc
  BY DEF vars, control
<1> USE DEF Stage
<1>7. CASE BootToLogin
  BY <1>1, <1>7 DEF BootToLogin, BootInstalled, Goto
<1>8. CASE BootToInstaller
  BY <1>1, <1>6, <1>8 DEF BootToInstaller, accounts
<1>9. CASE TurnOn
  BY <1>1, <1>9 DEF TurnOn, PowerOn, Goto, accounts, dialogue
<1>10. ASSUME NEW text \in Passwords, ChoosePassword(text)
       PROVE  /\ Typed(password', chosen', account', d_account', current_dir')
              /\ stage' = "confirm" /\ pc' = "boot"
  <2>1. InstallerLine(text) \in Seq(Nat) /\ Len(InstallerLine(text)) < MAX_LINE
    BY <1>10, SessionAssumption, LineType
  <2> QED
    BY <1>1, <1>2, <1>6, <1>10, <2>1 DEF ChoosePassword, accounts
<1>11. ASSUME NEW text \in Passwords, ConfirmPassword(text)
       PROVE  /\ Typed(password', chosen', account', d_account', current_dir')
              /\ \/ stage' = "password" /\ pc' = "boot"
                 \/ stage' = "install"
  <2>1. simple_hash[password] \in 0 .. HASH_WORD - 1
    BY <1>1, HashType
  <2> QED
    BY <1>1, <1>2, <1>3, <1>6, <1>11, <2>1 DEF ConfirmPassword
<1>12. CASE InstallStep
  BY <1>1, <1>12 DEF InstallStep
<1>13. ASSUME NEW name \in Logins, LoginName(name)
       PROVE  /\ Typed(password', chosen', account', d_account', current_dir')
              /\ stage' \in {"login", "login_password"} /\ pc' = "idle"
  BY <1>1, <1>2, <1>6, <1>13 DEF LoginName, accounts
<1>14. ASSUME NEW text \in Passwords, LoginPassword(text)
       PROVE  /\ Typed(password', chosen', account', d_account', current_dir')
              /\ stage' \in {"login", "shell"} /\ pc' = "idle"
  <2>1. current_dir' \in {UserHome, << >>, current_dir}
    BY <1>14 DEF LoginPassword, shell_init
  <2> QED
    BY <1>1, <1>2, <1>4, <1>5, <1>6, <1>14, <2>1 DEF LoginPassword, accounts
<1>15. CASE Shell
  <2>1. ASSUME NEW command \in Commands, RunCommand(command)
        PROVE  Typed(password', chosen', account', d_account', current_dir')
               /\ stage' = "shell"
    BY <1>1, <2>1 DEF RunCommand, AtPrompt, accounts, dialogue
  <2>2. ASSUME NEW argument \in CdArguments, cd(argument)
        PROVE  Typed(password', chosen', account', d_account', current_dir')
               /\ stage' = "shell"
    <3>1. FullPath(argument) \in Seq(Part)
      BY SessionAssumption, FullPathType
    <3>2. \/ current_dir' = current_dir
          \/ current_dir' = FullPath(argument) /\ Len(FullPath(argument)) <= MaxPath
      BY <2>2 DEF cd
    <3> QED
      BY <1>1, <2>2, <3>1, <3>2 DEF cd, AtPrompt, accounts
  <2>3. CASE cd_dotdot
    <3>1. CASE current_dir = << >>
      BY <1>1, <1>4, <2>3, <3>1 DEF cd_dotdot, AtPrompt, accounts
    <3>2. CASE current_dir # << >>
      <4>1. current_dir' = Parent(current_dir)
        BY <2>3, <3>2 DEF cd_dotdot, CutAtLastSlash, Parent
      <4>2. Parent(current_dir) \in Seq(Part)
            /\ Len(Parent(current_dir)) = Len(current_dir) - 1
            /\ Len(current_dir) \in Nat
        BY <1>1, <3>2, ParentSeq
      <4>3. Len(Parent(current_dir)) <= MaxPath
        BY <1>1, <4>2, SessionAssumption
      <4> QED
        BY <1>1, <2>3, <4>1, <4>2, <4>3 DEF cd_dotdot, AtPrompt, accounts
    <3> QED
      BY <3>1, <3>2
  <2>4. CASE cd_home
    <3>1. current_dir' \in {UserHome, current_dir}
      BY <2>4 DEF cd_home
    <3> QED
      BY <1>1, <1>5, <2>4, <3>1 DEF cd_home, AtPrompt, accounts
  <2>5. CASE CommandStep
    BY <1>1, <2>5 DEF CommandStep, dialogue
  <2>6. CASE Leave_shell
    BY <1>1, <1>4, <2>6 DEF Leave_shell, SwitchOff, Goto, accounts
  <2> QED
    BY <1>15, <2>1, <2>2, <2>3, <2>4, <2>5, <2>6 DEF Shell
<1>16. CASE UNCHANGED sessionVars
  BY <1>1, <1>2, <1>6, <1>16 DEF sessionVars, accounts, dialogue
<1> HIDE DEF Typed
<1> QED
  BY <1>7, <1>8, <1>9, <1>10, <1>11, <1>12, <1>13, <1>14, <1>15, <1>16 DEF SessionNext

(***************************************************************************)
(* The stages of installer_run, do_login and the shell fit what the file   *)
(* system is doing, the stored password and current_dir fit their buffers, *)
(* and the account is a uint32_t, whatever is typed.                       *)
(***************************************************************************)
THEOREM SessionTyped == SessionSpec => []SessionTypeOK
BY SessionTypeInit, SessionTypeNext, PTL DEF SessionSpec

-----------------------------------------------------------------------------
(* A session's steps are steps of the file system                          *)

LEMMA SessionSteps == SessionTypeOK /\ [SessionNext]_sessionVars => [Step]_vars
<1> SUFFICES ASSUME SessionTypeOK, [SessionNext]_sessionVars PROVE [Step]_vars
  OBVIOUS
<1>1. CASE BootToLogin \/ BootToInstaller \/ TurnOn
  BY <1>1 DEF BootToLogin, BootToInstaller, TurnOn, Step, Next, Kernel, Boot, User
<1>2. ASSUME NEW text \in Passwords,
             ChoosePassword(text) \/ ConfirmPassword(text) \/ LoginPassword(text)
      PROVE  [Step]_vars
  BY <1>2 DEF ChoosePassword, ConfirmPassword, LoginPassword, Step, Next, Kernel, Boot
<1>3. CASE InstallStep
  BY <1>3 DEF InstallStep, Step, Next, Kernel
<1>4. ASSUME NEW name \in Logins, LoginName(name) PROVE [Step]_vars
  BY <1>4 DEF LoginName
<1>5. ASSUME NEW command \in Commands, RunCommand(command) PROVE [Step]_vars
  <2> DEFINE request == [op |-> command.op, content |-> command.content,
                         path |-> Normalized[FullPath(command.argument)]]
  <2>1. /\ command.op \in {"create_dir", "create_file", "delete_file"}
        /\ command.argument \in Argument /\ command.content \in Seq(Data)
    BY SessionAssumption DEF Command
  <2>2. Normalized[FullPath(command.argument)] \in Path
    BY <2>1, FullPathType, NormalizedStep
  <2>3. request \in Request
    BY <2>1, <2>2 DEF Request
  <2>4. Call(request)
    BY <1>5 DEF RunCommand
  <2> HIDE DEF request
  <2> QED
    BY <2>3, <2>4 DEF Step
<1>6. ASSUME NEW argument \in CdArguments, cd(argument) PROVE [Step]_vars
  BY <1>6 DEF cd
<1>7. CASE cd_dotdot \/ cd_home
  BY <1>7 DEF cd_dotdot, cd_home
<1>8. CASE CommandStep
  BY <1>8 DEF CommandStep, Step, Next, Kernel
<1>9. CASE Leave_shell
  BY <1>9 DEF Leave_shell, Step, Next, User
<1>10. CASE UNCHANGED sessionVars
  BY <1>10 DEF sessionVars
<1> QED
  BY <1>1, <1>2, <1>3, <1>4, <1>5, <1>6, <1>7, <1>8, <1>9, <1>10 DEF SessionNext, Shell

-----------------------------------------------------------------------------
(***************************************************************************)
(* The directories a path can mean: all that its names lead to from the    *)
(* root, through whichever entry of that name.  find_inode_by_path takes   *)
(* the first entry, and a file may come to stand before a directory; but   *)
(* no call takes one of these directories away.                            *)
(***************************************************************************)
DirsCalled(D, name) ==
    {i \in Inode : /\ inode_table[i].type = "DIR"
                   /\ \E d \in D : \E s \in Slot : /\ Entry(d, s).in_use
                                                   /\ Entry(d, s).name = name
                                                   /\ Entry(d, s).inode = i}

RootDir == {i \in Inode : i = Root /\ inode_table[i].type = "DIR"}

Reached[path \in Path] ==
    IF path = << >> THEN RootDir
    ELSE DirsCalled(Reached[Parent(path)], FileName(path))

ReachedSteps ==
    \A path \in Path : /\ Reached[path] \in SUBSET Inode
                       /\ \A i \in Reached[path] : inode_table[i].type = "DIR"
                       /\ path = << >> => Reached[path] = RootDir
                       /\ path # << >> => Reached[path] =
                              DirsCalled(Reached[Parent(path)], FileName(path))

LEMMA ReachedStep == ReachedSteps
<1> DEFINE Sets == SUBSET Inode
           step == [D \in Sets |-> [c \in Component |-> DirsCalled(D, c)]]
           Body(f) == [q \in Path |-> IF q = << >> THEN RootDir
                           ELSE DirsCalled(f[Parent(q)], FileName(q))]
<1>1. RootDir \in Sets /\ \A D \in Sets : \A c \in Component : DirsCalled(D, c) \in Sets
  BY DEF RootDir, DirsCalled
<1>2. Reached = CHOOSE f : f = Body(f)
  BY DEF Reached
<1>3. \A D, c : \A i \in DirsCalled(D, c) : i \in Inode /\ inode_table[i].type = "DIR"
  BY DEF DirsCalled
<1> HIDE DEF Sets
<1>4. step \in Steps(Component, Sets)
  BY <1>1 DEF Steps
<1>5. \A D \in Sets : \A c \in Component : step[D][c] = DirsCalled(D, c)
  OBVIOUS
<1> HIDE DEF step
<1>6. PICK g \in [Path -> Sets] : \A q \in Path :
         g[q] = IF q = << >> THEN RootDir ELSE step[g[Parent(q)]][FileName(q)]
  <2> HIDE DEF Body
  <2>1. \E g \in [Seq(Component) -> Sets] : \A q \in Seq(Component) :
           g[q] = IF q = << >> THEN RootDir ELSE step[g[Parent(q)]][FileName(q)]
    BY <1>1, <1>4, SeqRecursion
  <2> QED
    BY <2>1 DEF Path
<1>7. g = Body(g)
  <2>1. ASSUME NEW q \in Path
        PROVE  g[q] = IF q = << >> THEN RootDir
                      ELSE DirsCalled(g[Parent(q)], FileName(q))
    BY <1>5, <1>6, <2>1, ParentPath
  <2> QED
    BY <1>6, <2>1
<1>8. Reached = Body(Reached)
  BY <1>2, <1>7
<1>9. \A q \in Path : Reached[q] = IF q = << >> THEN RootDir
                                   ELSE DirsCalled(Reached[Parent(q)], FileName(q))
  BY <1>8
<1> HIDE DEF Body
<1> SUFFICES ASSUME NEW path \in Path
             PROVE  /\ Reached[path] \subseteq Inode
                    /\ \A i \in Reached[path] : inode_table[i].type = "DIR"
  BY <1>9 DEF ReachedSteps
<1>10. CASE path = << >>
  BY <1>9, <1>10 DEF RootDir
<1>11. CASE path # << >>
  BY <1>3, <1>9, <1>11
<1> QED
  BY <1>10, <1>11

LEMMA ReachedFront ==
    ASSUME NEW path \in Path, path # << >>, NEW i \in Reached[path]
    PROVE  \E d \in Reached[Parent(path)], s \in Slot :
               /\ Entry(d, s).in_use
               /\ Entry(d, s).name = FileName(path)
               /\ Entry(d, s).inode = i
<1>1. i \in DirsCalled(Reached[Parent(path)], FileName(path))
  BY ReachedStep DEF ReachedSteps
<1> QED
  BY <1>1 DEF DirsCalled

\* A directory with an entry in use has its block.
LEMMA EntryInBlock ==
    ASSUME TypeOK, NEW d \in Inode, inode_table[d].type = "DIR",
           NEW s \in Slot, Entry(d, s).in_use
    PROVE  d \in Directories
<1>1. CASE inode_table[d].blocks[0] = NoBlock
  BY <1>1 DEF Entry, dir_entries, read_inode_block, ZeroSector, FreeEntry
<1> QED
  BY <1>1 DEF Directories

\* A new directory that has no entry yet is not among them.
LEMMA ReachedInPlace ==
    ASSUME LinkInv, NEW path \in Path
    PROVE  Reached[path] \cap Awaiting = {}
<1>0. TypeOK /\ UnlinkedInv /\ RootInv
  BY DEF LinkInv, Tidy, BlockInv, TypeInv
<1> SUFFICES ASSUME pc = "dir_link" PROVE frame.inode \notin Reached[path]
  BY DEF Awaiting
<1> DEFINE P == {p \in Path : frame.inode \notin Reached[p]}
<1>1. << >> \in P
  <2>1. << >> \in Path
    BY EmptySeq DEF Path
  <2> QED
    BY <1>0, <2>1, ReachedStep DEF ReachedSteps, RootInv, RootDir
<1>2. ASSUME NEW p \in Path, p # << >>, Parent(p) \in P PROVE p \in P
  <2> SUFFICES ASSUME frame.inode \in Reached[p] PROVE FALSE
    OBVIOUS
  <2>1. Parent(p) \in Path
    BY <1>2, ParentPath
  <2>2. PICK d \in Reached[Parent(p)], s \in Slot :
           Entry(d, s).in_use /\ Entry(d, s).inode = frame.inode
    BY <1>2, ReachedFront
  <2>3. d \in Inode /\ inode_table[d].type = "DIR" /\ d # frame.inode
    BY <1>2, <2>1, <2>2, ReachedStep DEF ReachedSteps
  <2>4. d \in Directories
    BY <1>0, <2>2, <2>3, EntryInBlock
  <2> QED
    BY <1>0, <2>2, <2>3, <2>4 DEF UnlinkedInv, Unlinked
<1> HIDE DEF P
<1>3. path \in P
  BY <1>1, <1>2, SeqInduction DEF Path
<1> QED
  BY <1>3 DEF P

\* Whatever the path can mean before a step it can mean after.
LEMMA ReachedStays ==
    ASSUME LinkInv, [Step]_vars, NEW path \in Path
    PROVE  Reached[path] \subseteq Reached'[path]
<1> DEFINE P == {p \in Path : Reached[p] \subseteq Reached'[p]}
<1>1. DirsStay
  BY StepKeepsDirs
<1>2. \A p \in Path :
         /\ p = << >> => Reached'[p] = RootDir'
         /\ p # << >> => Reached'[p] = DirsCalled(Reached[Parent(p)], FileName(p))'
  <2>1. ReachedSteps'
    BY ReachedStep, PTL
  <2> QED
    BY <2>1 DEF ReachedSteps, ReachedSteps
<1>3. ASSUME NEW p \in Path, NEW i \in Reached[p]
      PROVE  /\ i \in Inode \ Awaiting
             /\ inode_table[i].type = "DIR" /\ inode_table'[i].type = "DIR"
  BY <1>1, <1>3, ReachedStep, ReachedInPlace DEF ReachedSteps, DirsStay
<1>4. << >> \in P
  <2>1. << >> \in Path
    BY EmptySeq DEF Path
  <2> QED
    BY <1>2, <1>3, <2>1, ReachedStep DEF ReachedSteps, RootDir
<1>5. ASSUME NEW p \in Path, p # << >>, Parent(p) \in P PROVE p \in P
  <2> SUFFICES ASSUME NEW i \in Reached[p] PROVE i \in Reached'[p]
    OBVIOUS
  <2>1. Parent(p) \in Path
    BY <1>5, ParentPath
  <2>2. PICK d \in Reached[Parent(p)], s \in Slot :
           Entry(d, s).in_use /\ Entry(d, s).name = FileName(p) /\ Entry(d, s).inode = i
    BY <1>5, ReachedFront
  <2>3. d \in Inode \ Awaiting /\ inode_table[d].type = "DIR"
    BY <1>3, <2>1
  <2>4. Entry(d, s)' = Entry(d, s)
    BY <1>1, <1>3, <2>2, <2>3 DEF DirsStay
  <2>5. d \in Reached'[Parent(p)]
    BY <1>5, <2>2
  <2>6. i \in DirsCalled(Reached[Parent(p)], FileName(p))'
    BY <1>3, <2>2, <2>4, <2>5 DEF DirsCalled
  <2> QED
    BY <1>2, <1>5, <2>6
<1> HIDE DEF P
<1>6. path \in P
  BY <1>4, <1>5, SeqInduction DEF Path
<1> QED
  BY <1>6 DEF P

\* The directory find_inode_by_path finds is one of them, ...
LEMMA FoundReached ==
    ASSUME TypeOK, NEW path \in Path, fs_dir_exists(path)
    PROVE  find_inode_by_path(path) \in Reached[path]
<1> DEFINE P == {p \in Path : fs_dir_exists(p) => find_inode_by_path(p) \in Reached[p]}
<1>1. ASSUME NEW p \in Path, fs_dir_exists(p)
      PROVE  /\ find_inode_by_path(p) \in Inode
             /\ find_inode_by_path(p) # NoInode
             /\ inode_table[find_inode_by_path(p)].type = "DIR"
  BY <1>1, FindType DEF fs_dir_exists, IsDirectory
<1>2. << >> \in P
  <2>1. << >> \in Path
    BY EmptySeq DEF Path
  <2>2. find_inode_by_path(<< >>) = Root
    BY <2>1, FindWalk, PathWalk
  <2> QED
    BY <1>1, <2>1, <2>2, ReachedStep DEF ReachedSteps, RootDir
<1>3. ASSUME NEW p \in Path, p # << >>, Parent(p) \in P PROVE p \in P
  <2> SUFFICES ASSUME fs_dir_exists(p) PROVE find_inode_by_path(p) \in Reached[p]
    OBVIOUS
  <2>1. PICK d : d = find_inode_by_path(Parent(p))
    OBVIOUS
  <2>2. PICK i \in Inode : i = find_inode_by_path(p)
    BY <1>1
  <2>3. d \in Directories /\ \E s \in Slot : /\ Entry(d, s).in_use
                                            /\ Entry(d, s).name = FileName(p)
                                            /\ Entry(d, s).inode = i
    BY <1>1, <1>3, <2>1, <2>2, FoundByEntry
  <2>4. fs_dir_exists(Parent(p))
    BY <2>1, <2>3, ConstantTypes DEF fs_dir_exists, IsDirectory, Directories, Inode, NoInode
  <2>5. d \in Reached[Parent(p)]
    BY <1>3, <2>1, <2>4
  <2>6. i \in DirsCalled(Reached[Parent(p)], FileName(p))
    BY <1>1, <2>2, <2>3, <2>5 DEF DirsCalled
  <2> QED
    BY <1>3, <2>2, <2>6, ReachedStep DEF ReachedSteps
<1> HIDE DEF P
<1>4. path \in P
  BY <1>2, <1>3, SeqInduction DEF Path
<1> QED
  BY <1>4 DEF P

LEMMA PrefixOfParent ==
    ASSUME NEW p \in Path, p # << >>, NEW k \in 1 .. Len(p) - 1
    PROVE  Prefix(Parent(p), k - 1) = Prefix(p, k - 1)
<1> DEFINE n == k - 1
<1>1. /\ Len(p) \in Nat \ {0} /\ Len(Parent(p)) = Len(p) - 1
      /\ Parent(p) \in Path
      /\ \A m \in 1 .. Len(p) - 1 : Parent(p)[m] = p[m]
      /\ \A m \in 1 .. Len(p) : p[m] \in Component
  BY ParentPath
<1>2. n \in Int /\ n < Len(p) - 1
  BY <1>1
<1> HIDE DEF n
<1>3. \A m \in 1 .. n : p[m] \in Component /\ Parent(p)[m] = p[m]
  BY <1>1, <1>2
<1> DEFINE a == SubSeq(p, 1, n)
           b == SubSeq(Parent(p), 1, n)
<1>4. /\ a \in Seq(Component) /\ b \in Seq(Component)
      /\ Len(a) = Len(b)
      /\ \A m \in 1 .. n - 1 + 1 : a[m] = p[1 + m - 1] /\ b[m] = Parent(p)[1 + m - 1]
      /\ Len(a) = IF 1 <= n THEN n - 1 + 1 ELSE 0
  <2>1. /\ a \in Seq(Component)
        /\ Len(a) = IF 1 <= n THEN n - 1 + 1 ELSE 0
        /\ \A m \in 1 .. n - 1 + 1 : a[m] = p[1 + m - 1]
    BY <1>2, <1>3, SubSeqProperties
  <2>2. /\ b \in Seq(Component)
        /\ Len(b) = IF 1 <= n THEN n - 1 + 1 ELSE 0
        /\ \A m \in 1 .. n - 1 + 1 : b[m] = Parent(p)[1 + m - 1]
    BY <1>2, <1>3, SubSeqProperties
  <2> QED
    BY <2>1, <2>2
<1> HIDE DEF a, b
<1>5. ASSUME NEW m \in 1 .. Len(a) PROVE a[m] = b[m]
  <2>1. m \in 1 .. n /\ m \in 1 .. n - 1 + 1 /\ 1 + m - 1 = m
    BY <1>2, <1>4
  <2> QED
    BY <1>3, <1>4, <2>1
<1>6. a = b
  BY <1>4, <1>5, SeqEqual
<1> QED
  BY <1>6 DEF Prefix, a, b, n

\* ... and, where no entry hides another, the only one.
LEMMA UnambiguousFound ==
    ASSUME TypeOK, NEW path \in Path, ~ Ambiguous(path), NEW d \in Reached[path]
    PROVE  find_inode_by_path(path) = d /\ fs_dir_exists(path)
<1> DEFINE P == {p \in Path : ~ Ambiguous(p) =>
                                \A i \in Reached[p] : find_inode_by_path(p) = i}
<1>1. << >> \in P
  <2>1. << >> \in Path
    BY EmptySeq DEF Path
  <2>2. find_inode_by_path(<< >>) = Root
    BY <2>1, FindWalk, PathWalk
  <2> QED
    BY <2>1, <2>2, ReachedStep DEF ReachedSteps, RootDir
<1>2. ASSUME NEW p \in Path, p # << >>, Parent(p) \in P PROVE p \in P
  <2> SUFFICES ASSUME ~ Ambiguous(p), NEW i \in Reached[p]
               PROVE  find_inode_by_path(p) = i
    OBVIOUS
  <2>1. /\ Parent(p) \in Path /\ FileName(p) \in Component
        /\ Len(p) \in Nat \ {0} /\ Len(Parent(p)) = Len(p) - 1
        /\ \A k \in 1 .. Len(p) - 1 : Parent(p)[k] = p[k]
    BY <1>2, ParentPath DEF FileName
  <2>2. ~ Ambiguous(Parent(p))
    <3> SUFFICES ASSUME NEW k \in 1 .. Len(p) - 1
                 PROVE  k \in 1 .. Len(p)
                        /\ Prefix(Parent(p), k - 1) = Prefix(p, k - 1)
      BY <2>1 DEF Ambiguous
    <3> QED
      BY <2>1, PrefixOfParent
  <2>3. PICK c \in Reached[Parent(p)], s \in Slot :
           Entry(c, s).in_use /\ Entry(c, s).name = FileName(p) /\ Entry(c, s).inode = i
    BY <1>2, ReachedFront
  <2>4. c \in Inode /\ inode_table[c].type = "DIR" /\ i \in Inode
    BY <2>1, <2>3, ReachedStep DEF ReachedSteps
  <2>5. c \in Directories
    BY <2>3, <2>4, EntryInBlock
  <2>6. find_inode_by_path(Parent(p)) = c
    BY <1>2, <2>2, <2>3
  <2>7. ~ Hidden(c, FileName(p))
    <3>1. Len(p) \in 1 .. Len(p) /\ Prefix(p, Len(p) - 1) = Parent(p)
      BY <2>1 DEF Prefix, Parent
    <3> QED
      BY <2>5, <2>6, <3>1 DEF Ambiguous, FileName
  <2>8. PICK n \in Component : n = FileName(p)
    BY <2>1
  <2> DEFINE hits == {t \in Slot : dir_entries(c)[t].in_use /\ dir_entries(c)[t].name = n}
  <2>9. s \in hits /\ hits \in SUBSET Nat
    BY <2>3, <2>8, SizesAssumption DEF Entry, Slot
  <2>10. First(hits) \in hits
    BY <2>9, FirstProperty
  <2>11. First(hits) = s
    BY <2>7, <2>8, <2>9, <2>10 DEF Hidden, UsedEntries
  <2>12. IsDirectory(c) /\ inode_table[c].blocks[0] # NoBlock
    BY <2>4, <2>5, ConstantTypes DEF IsDirectory, Directories, Inode, NoInode
  <2>13. dir_lookup[c][n] = Entry(c, s).inode
    BY <2>4, <2>9, <2>11, <2>12 DEF dir_lookup, Entry
  <2>14. path_walk[p] = dir_lookup[c][n]
    BY <1>2, <2>1, <2>6, <2>8, PathWalk, FindWalk
  <2> QED
    BY <1>2, <2>3, <2>13, <2>14, FindWalk
<1> HIDE DEF P
<1>3. path \in P
  BY <1>1, <1>2, SeqInduction DEF Path
<1>4. find_inode_by_path(path) = d
  BY <1>3 DEF P
<1>5. d \in Inode /\ inode_table[d].type = "DIR"
  BY ReachedStep DEF ReachedSteps
<1> QED
  BY <1>4, <1>5, ConstantTypes DEF fs_dir_exists, IsDirectory, Inode, NoInode

\* The same as one formula, of any state.
OnlyOne ==
    TypeOK => \A path \in Path : \A d \in Reached[path] :
                  ~ Ambiguous(path) => find_inode_by_path(path) = d

LEMMA UnambiguousOne == OnlyOne
BY UnambiguousFound DEF OnlyOne

-----------------------------------------------------------------------------
(* The current directory                                                   *)

\* The string current_dir means some directory.
Leads(dir) == Reached[Normalized[dir]] # {}

HereInv == stage = "shell" => Leads(current_dir)

SessionInv == SessionTypeOK /\ LinkInv /\ HereInv

LEMMA ParentLast ==
    ASSUME NEW p \in Path, p # << >>
    PROVE  p = Append(Parent(p), FileName(p))
<1> DEFINE q == Append(Parent(p), FileName(p))
           n == Len(p) - 1
<1>1. /\ Parent(p) \in Path /\ FileName(p) \in Component
      /\ Len(p) \in Nat \ {0} /\ Len(Parent(p)) = n
      /\ \A k \in 1 .. n : Parent(p)[k] = p[k]
  BY ParentSeq DEF Path
<1>2. /\ q \in Path /\ Len(q) = Len(Parent(p)) + 1
      /\ \A k \in 1 .. Len(Parent(p)) : q[k] = Parent(p)[k]
      /\ q[Len(Parent(p)) + 1] = FileName(p)
  BY <1>1, AppendProperties DEF Path
<1>3. Len(q) = Len(p) /\ Len(Parent(p)) + 1 = Len(p) /\ n \in Nat
  BY <1>1, <1>2
<1> HIDE DEF q
<1>4. ASSUME NEW k \in 1 .. Len(p) PROVE q[k] = p[k]
  <2>1. k \in 1 .. n \/ k = Len(p)
    BY <1>1
  <2> HIDE DEF n
  <2> QED
    BY <1>1, <1>2, <1>3, <2>1 DEF FileName
<1>5. q = p
  BY <1>2, <1>3, <1>4, SeqEqual DEF Path
<1> QED
  BY <1>5 DEF q

\* What has no empty part is as it was put together.
LEMMA NormalizedPath ==
    ASSUME NEW path \in Path
    PROVE  path \in Seq(Part) /\ Normalized[path] = path
<1> DEFINE P == {p \in Path : p \in Seq(Part) /\ Normalized[p] = p}
<1>1. << >> \in P
  <2>1. << >> \in Path /\ << >> \in Seq(Part)
    BY EmptySeq DEF Path
  <2> QED
    BY <2>1, NormalizedStep
<1>2. ASSUME NEW p \in Path, p # << >>, Parent(p) \in P PROVE p \in P
  <2>1. /\ Parent(p) \in Path /\ FileName(p) \in Component
        /\ Len(p) \in Nat \ {0} /\ \A k \in 1 .. Len(p) : p[k] \in Component
    BY <1>2, ParentSeq DEF Path
  <2>2. FileName(p) # NoName /\ FileName(p) \in Part
    BY <2>1, NamesAssumption DEF Component, NoName, Dot, DotDot, Part
  <2>3. p = Append(Parent(p), FileName(p))
    BY <1>2, ParentLast
  <2>4. p \in Seq(Part)
    <3>1. Parent(p) \in Seq(Part)
      BY <1>2
    <3>2. Append(Parent(p), FileName(p)) \in Seq(Part)
      BY <2>2, <3>1, AppendProperties
    <3> QED
      BY <2>3, <3>2
  <2>5. Normalized[p] = Append(Normalized[Parent(p)], FileName(p))
    BY <1>2, <2>2, <2>4, NormalizedStep
  <2> QED
    BY <1>2, <2>3, <2>4, <2>5
<1> HIDE DEF P
<1>3. path \in P
  BY <1>1, <1>2, SeqInduction DEF Path
<1> QED
  BY <1>3 DEF P

\* Where a directory is found, its path means one.
LEMMA ExistsLeads ==
    ASSUME TypeOK, NEW parts \in Seq(Part), fs_dir_exists(Normalized[parts])
    PROVE  Leads(parts)
BY NormalizedStep, FoundReached DEF Leads

\* A path that leads to a directory goes through one at each of its slashes, so
\* what `cd ..' leaves of it leads to a directory as well.
LEMMA CutLeads ==
    ASSUME NEW dir \in Seq(Part), dir # << >>, Leads(dir)
    PROVE  Leads(Parent(dir))
<1>1. Parent(dir) \in Seq(Part)
  BY ParentSeq
<1>2. Normalized[dir] \in Path /\ Normalized[Parent(dir)] \in Path
  BY <1>1, NormalizedStep
<1>3. CASE FileName(dir) = NoName
  BY <1>3, NormalizedStep DEF Leads
<1>4. CASE FileName(dir) # NoName
  <2>1. PICK p \in Path, n \in Component :
           p = Normalized[Parent(dir)] /\ n = FileName(dir)
    BY <1>2, <1>4, ParentSeq DEF Part
  <2>2. Normalized[dir] = Append(p, n)
    BY <1>4, <2>1, NormalizedStep
  <2>3. PICK i : i \in Reached[Append(p, n)]
    BY <2>2 DEF Leads
  <2>4. /\ Append(p, n) \in Path /\ Append(p, n) # << >>
        /\ Parent(Append(p, n)) = p
    BY AppendPath
  <2>5. \E d : d \in Reached[p]
    BY <2>3, <2>4, ReachedFront
  <2> QED
    BY <2>1, <2>5 DEF Leads
<1> QED
  BY <1>3, <1>4

LEMMA RootLeads ==
    ASSUME LinkInv, pc = "idle"
    PROVE  Leads(<< >>)
<1>1. << >> \in Seq(Part) /\ << >> \in Path
  BY EmptySeq DEF Path
<1>2. Normalized[<< >>] = << >> /\ Reached[<< >>] = RootDir
  BY <1>1, NormalizedStep, ReachedStep DEF ReachedSteps
<1>3. Root \in RootDir
  BY ConstantTypes DEF LinkInv, Tidy, RootInv, RootDir, Root
<1> QED
  BY <1>2, <1>3 DEF Leads

\* Every command leaves the shell at a path that led to a directory before.
LEMMA NextLeads ==
    ASSUME SessionInv, [SessionNext]_sessionVars, stage' = "shell"
    PROVE  current_dir' \in Seq(Part) /\ Leads(current_dir')
<1>0. /\ TypeOK /\ LinkInv /\ current_dir \in Seq(Part)
      /\ stage = "shell" => Leads(current_dir)
      /\ stage \in {"login", "login_password"} => pc = "idle"
  BY DEF SessionInv, LinkInv, BlockInv, TypeInv, HereInv, SessionTypeOK, Part
<1>1. ASSUME stage = "shell", current_dir' = current_dir
      PROVE  current_dir' \in Seq(Part) /\ Leads(current_dir')
  BY <1>0, <1>1
<1>2. fs_dir_exists(UserHome) => UserHome \in Seq(Part) /\ Leads(UserHome)
  BY <1>0, HomeType, NormalizedPath, ExistsLeads
<1>3. pc = "idle" => << >> \in Seq(Part) /\ Leads(<< >>)
  BY <1>0, RootLeads, EmptySeq
<1>4. ASSUME NEW text \in Passwords, LoginPassword(text)
      PROVE  current_dir' \in Seq(Part) /\ Leads(current_dir')
  <2>1. stage = "login_password" /\ shell_init
    BY <1>4 DEF LoginPassword
  <2> QED
    BY <1>0, <1>2, <1>3, <2>1 DEF shell_init
<1>5. ASSUME NEW argument \in CdArguments, cd(argument)
      PROVE  current_dir' \in Seq(Part) /\ Leads(current_dir')
  <2>1. FullPath(argument) \in Seq(Part)
    BY <1>0, SessionAssumption, FullPathType DEF SessionInv
  <2>2. stage = "shell"
    BY <1>5 DEF cd, AtPrompt
  <2>3. CASE MayEnter(argument)
    <3>1. current_dir' = FullPath(argument)
      BY <1>5, <2>3 DEF cd
    <3>2. Leads(FullPath(argument))
      BY <1>0, <2>1, <2>3, ExistsLeads DEF MayEnter
    <3> QED
      BY <2>1, <3>1, <3>2
  <2>4. CASE ~ MayEnter(argument)
    BY <1>1, <1>5, <2>2, <2>4 DEF cd
  <2> QED
    BY <2>3, <2>4
<1>6. CASE cd_dotdot
  <2>1. stage = "shell" /\ pc = "idle"
    BY <1>6 DEF cd_dotdot, AtPrompt
  <2>2. CASE current_dir = << >>
    BY <1>1, <1>6, <2>1, <2>2 DEF cd_dotdot
  <2>3. CASE current_dir # << >>
    <3>1. current_dir' = Parent(current_dir)
      BY <1>6, <2>3 DEF cd_dotdot, CutAtLastSlash, Parent
    <3> QED
      BY <1>0, <2>1, <2>3, <3>1, CutLeads, ParentSeq
  <2> QED
    BY <2>2, <2>3
<1>7. CASE cd_home
  <2>1. stage = "shell" /\ current_dir' \in {UserHome, current_dir}
        /\ (current_dir' = current_dir \/ fs_dir_exists(UserHome))
    BY <1>7 DEF cd_home, AtPrompt
  <2> QED
    BY <1>1, <1>2, <2>1
<1>8. ASSUME NEW command \in Commands, RunCommand(command)
      PROVE  current_dir' \in Seq(Part) /\ Leads(current_dir')
  BY <1>1, <1>8 DEF RunCommand, AtPrompt, dialogue
<1>9. CASE CommandStep
  BY <1>1, <1>9 DEF CommandStep, dialogue
<1>10. CASE UNCHANGED sessionVars
  BY <1>1, <1>10 DEF sessionVars, dialogue
<1>11. ~ (BootToLogin \/ BootToInstaller \/ TurnOn \/ InstallStep \/ Leave_shell)
  BY DEF BootToLogin, BootToInstaller, TurnOn, InstallStep, Leave_shell, dialogue
<1>12. \A text : ~ (ChoosePassword(text) \/ ConfirmPassword(text))
  BY DEF ChoosePassword, ConfirmPassword
<1>13. \A name : ~ LoginName(name)
  BY DEF LoginName
<1> QED
  BY <1>4, <1>5, <1>6, <1>7, <1>8, <1>9, <1>10, <1>11, <1>12, <1>13
     DEF SessionNext, Shell

LEMMA SessionInvInit == SessionInit => SessionInv
BY SessionTypeInit, LinkInit DEF SessionInit, SessionInv, HereInv

LEMMA SessionInvNext == SessionInv /\ [SessionNext]_sessionVars => SessionInv'
<1> SUFFICES ASSUME SessionInv, [SessionNext]_sessionVars PROVE SessionInv'
  OBVIOUS
<1>1. SessionTypeOK'
  BY SessionTypeNext DEF SessionInv
<1>2. LinkInv /\ [Step]_vars
  BY SessionSteps DEF SessionInv
<1>3. LinkInv'
  BY <1>2, LinkNext
<1>4. ASSUME stage' = "shell" PROVE Leads(current_dir)'
  <2>1. PICK dir \in Seq(Part) : dir = current_dir' /\ Leads(dir)
    BY <1>4, NextLeads
  <2>2. Normalized[dir] \in Path
    BY NormalizedStep
  <2>3. Reached[Normalized[dir]] \subseteq Reached'[Normalized[dir]]
    BY <1>2, <2>2, ReachedStays
  <2> QED
    BY <2>1, <2>3 DEF Leads
<1> QED
  BY <1>1, <1>3, <1>4 DEF SessionInv, HereInv

(***************************************************************************)
(* The shell keeps a string: whatever commands and cuts have made of it,   *)
(* there is a directory at current_dir, unless a file hides one on the way.*)
(***************************************************************************)
THEOREM HereIsADirectory == SessionSpec => []CurrentDirExists
<1>1. SessionInv => CurrentDirExists
  <2> SUFFICES ASSUME SessionInv, stage = "shell", ~ Ambiguous(Here)
               PROVE  fs_dir_exists(Here)
    BY DEF CurrentDirExists
  <2>1. TypeOK /\ current_dir \in Seq(Part) /\ Leads(current_dir)
    BY DEF SessionInv, LinkInv, BlockInv, TypeInv, HereInv, SessionTypeOK, Part
  <2>2. PICK path \in Path : path = Here
    BY <2>1, NormalizedStep DEF Here
  <2>3. PICK d : d \in Reached[path]
    BY <2>1, <2>2 DEF Leads, Here
  <2> QED
    BY <2>1, <2>2, <2>3, UnambiguousFound
<1> QED
  BY <1>1, SessionInvInit, SessionInvNext, PTL DEF SessionSpec

(***************************************************************************)
(* The inode that current_dir names changes under no command: an inode     *)
(* freed by rm and taken again never becomes the directory one stands in.  *)
(***************************************************************************)
THEOREM HereStays == SessionSpec => CurrentDirStays
<1>1. ASSUME SessionInv, SessionInv', [SessionNext]_sessionVars,
             stage = "shell", stage' = "shell", current_dir' = current_dir,
             ~ Ambiguous(Here), ~ Ambiguous(Here)'
      PROVE  find_inode_by_path(Here)' = find_inode_by_path(Here)
  <2>1. TypeOK /\ LinkInv /\ current_dir \in Seq(Part) /\ Leads(current_dir)
    BY <1>1 DEF SessionInv, LinkInv, BlockInv, TypeInv, HereInv, SessionTypeOK, Part
  <2>2. PICK path \in Path : path = Here
    BY <2>1, NormalizedStep DEF Here
  <2>3. Here' = path
    BY <1>1, <2>2 DEF Here
  <2>4. PICK d : d \in Reached[path]
    BY <2>1, <2>2 DEF Leads, Here
  <2>5. [Step]_vars
    BY <1>1, SessionSteps DEF SessionInv
  <2>6. d \in Reached'[path]
    BY <2>1, <2>4, <2>5, ReachedStays
  <2>7. find_inode_by_path(path) = d
    BY <1>1, <2>1, <2>2, <2>4, UnambiguousFound
  <2>8. ~ Ambiguous(path)'
    BY <1>1, <2>3 DEF Ambiguous
  <2>9. find_inode_by_path(path)' = d
    <3>1. TypeOK'
      BY <1>1 DEF SessionInv, LinkInv, BlockInv, TypeInv
    <3>2. OnlyOne'
      BY UnambiguousOne, PTL
    <3> QED
      BY <2>6, <2>8, <3>1, <3>2 DEF OnlyOne
  <2> QED
    BY <2>2, <2>3, <2>7, <2>9 DEF find_inode_by_path
<1>2. SessionInv /\ SessionInv' /\ [SessionNext]_sessionVars
        => [(stage = "shell" /\ stage' = "shell" /\ current_dir' = current_dir)
            => \/ find_inode_by_path(Here)' = find_inode_by_path(Here)
               \/ Ambiguous(Here) \/ Ambiguous(Here)']_sessionVars
  BY <1>1
<1> QED
  BY <1>2, SessionInvInit, SessionInvNext, PTL DEF SessionSpec, CurrentDirStays

-----------------------------------------------------------------------------
(* The home directory, from the installation to every login                *)

\* fs_install has not come to its end.
NoHomeYet == task.op = "install" \/ (pc = "boot" /\ d_superblock.installed # 1)

HomeInv ==
    /\ NoHomeYet => PathInv /\ ZeroInv /\ LayInv
    /\ pc = "off" => d_superblock.installed = 1
    /\ ~ NoHomeYet => Reached[UserHome] # {}

LEMMA HomeInit == SessionInit => HomeInv
<1> SUFFICES ASSUME Init PROVE HomeInv
  BY DEF SessionInit
<1>1. PathInv /\ ZeroInv /\ LayInv
  BY PathInit, StoreInit, LayInit DEF StoreInv
<1> QED
  BY <1>1 DEF Init, HomeInv, NoHomeYet, ZeroSuperblock

\* At the end of an installation the directories of the list are there.
LEMMA HomeLaid ==
    ASSUME PlainCalls, PlainInstall, HomeInstalled, LinkInv, PathInv, LayInv, InstallFinish
    PROVE  Reached[UserHome] # {}
<1>1. TypeOK /\ UserHome \in Path
  BY HomeType DEF LinkInv, BlockInv, TypeInv
<1>2. PICK j \in 1 .. Len(InstallDirs) : InstallDirs[j] = UserHome
  BY ListParts DEF HomeInstalled
<1>3. /\ Len(InstallDirs) \in Nat /\ Len(InstallDirs) < FS_MAX_INODES
      /\ frame.i \in Nat /\ j \in Nat /\ j >= 1
  BY <1>1, ListParts DEF TypeOK, ControlTypeOK, Frame
<1>4. PICK n \in Nat : n = Len(InstallDirs) /\ Laid(n, n)
  <2>1. frame.i = Len(InstallDirs) /\ Laid(frame.i, frame.i)
    BY <1>3 DEF InstallFinish, LayInv
  <2> QED
    BY <1>3, <2>1
<1>5. path_walk[UserHome] = j
  BY <1>2, <1>4 DEF Laid, WalksOf
<1>6. j \in Inode
  BY <1>2, <1>3, SizesAssumption DEF Inode
<1>7. inode_table[j].type = "DIR"
  <2>1. \A i \in Inode : i <= n => inode_table[i].type = "DIR"
    BY <1>4 DEF Laid, TableOf, FreeInode
  <2> QED
    BY <1>3, <1>4, <1>6, <2>1
<1>8. fs_dir_exists(UserHome)
  BY <1>1, <1>5, <1>6, <1>7, FindWalk, ConstantTypes
     DEF fs_dir_exists, IsDirectory, Inode, NoInode
<1> QED
  BY <1>1, <1>8, FoundReached

\* An installation ends with InstallFinish, and none begins after it.
LEMMA HomePhase ==
    ASSUME LinkInv, ZeroInv \/ ~ NoHomeYet, [Step]_vars,
           pc = "off" => d_superblock.installed = 1
    PROVE  /\ NoHomeYet => [Next]_vars
           /\ NoHomeYet /\ ~ (NoHomeYet') => InstallFinish
           /\ ~ NoHomeYet => ~ (NoHomeYet')
           /\ pc' = "off" => d_superblock'.installed = 1
<1>0. CallInv /\ InstalledInv /\ (NoHomeYet /\ pc = "return" => task.op # "install")
  BY DEF LinkInv, BlockInv, TypeInv, ZeroInv, NoHomeYet
<1> USE DEF NoHomeYet
<1>1. CASE UNCHANGED vars
  BY <1>1 DEF vars, disk, metadata, control
<1>2. CASE BootInstalled
  BY <1>0, <1>2 DEF BootInstalled, Goto, CallInv, NoTask
<1>3. CASE InstallRoot
  BY <1>0, <1>3 DEF InstallRoot, Goto, Next, Kernel, Boot
<1>4. CASE InstallSyncSuperblock \/ InstallSyncInodes \/ InstallSyncBitmap \/ InstallNextDir
  BY <1>0, <1>4 DEF InstallSyncSuperblock, InstallSyncInodes, InstallSyncBitmap,
     InstallNextDir, Goto, Next, Kernel, Install
<1>5. CASE InstallFinish
  BY <1>0, <1>5 DEF InstallFinish, InstalledInv, sync_superblock, Goto, NoTask,
     Next, Kernel, Install
<1>6. CASE PowerOn \/ SwitchOff \/ Return \/ \E request \in Request : Call(request)
  BY <1>0, <1>6 DEF PowerOn, SwitchOff, Return, Call, Goto, CallInv, NoTask, Request,
     disk, metadata, InstalledInv
<1>7. CASE CreateDir
  <2>1. pc \in DirLabel \cup {"create_dir"} /\ pc' \notin {"boot", "off"} /\ task' = task
    <3>1. CASE CreateDirEnter \/ CreateDirSyncBitmap
      BY <3>1 DEF CreateDirEnter, CreateDirSyncBitmap, CreateDirReturnsOk, DirLabel,
         Leave, Goto
    <3>2. CASE CreateDirAlloc \/ CreateDirSyncInodes
      BY <3>2 DEF CreateDirAlloc, CreateDirSyncInodes, DirLabel, Leave, Goto
    <3>3. CASE CreateDirLink
      BY <3>3 DEF CreateDirLink, DirLabel, LinkEntry, GiveBack, Leave, Goto
    <3> QED
      BY <1>7, <3>1, <3>2, <3>3 DEF CreateDir
  <2>2. Next
    BY <1>7 DEF Next, Kernel
  <2>3. pc # "boot" /\ pc' # "boot" /\ pc' # "off"
    BY <2>1 DEF DirLabel
  <2> QED
    BY <2>1, <2>2, <2>3
<1>8. CASE CreateFile \/ DeleteFile
  <2>1. pc \notin {"boot", "off"} /\ pc' \notin {"boot", "off"} /\ task' = task
    <3>1. CASE CreateFileEnter \/ CreateFileParent \/ CreateFileAlloc
      BY <3>1 DEF CreateFileEnter, CreateFileParent, CreateFileAlloc, Leave, Goto
    <3>2. CASE CreateFileData \/ CreateFileLink
      BY <3>2 DEF CreateFileData, CreateFileLink, LinkEntry, GiveBack, Leave, Goto
    <3>3. CASE CreateFileSyncInodes \/ CreateFileSyncBitmap \/ CreateFileSyncSuperblock
      BY <3>3 DEF CreateFileSyncInodes, CreateFileSyncBitmap, CreateFileSyncSuperblock,
         Leave, Goto
    <3>4. CASE DeleteFileEnter \/ DeleteSyncInodes
      BY <3>4 DEF DeleteFileEnter, DeleteSyncInodes, DeleteReturns, Leave, Goto
    <3>5. CASE DeleteSyncBitmap
      BY <3>5 DEF DeleteSyncBitmap, DeleteReturns, Leave, Goto
    <3> QED
      BY <1>8, <3>1, <3>2, <3>3, <3>4, <3>5 DEF CreateFile, DeleteFile
  <2>2. Next
    BY <1>8 DEF Next, Kernel
  <2>3. pc # "boot" /\ pc' # "boot" /\ pc' # "off"
    BY <2>1
  <2> QED
    BY <2>1, <2>2, <2>3
<1> QED
  BY <1>1, <1>2, <1>3, <1>4, <1>5, <1>6, <1>7, <1>8, CallsAssumption
     DEF Step, Next, Kernel, User, Boot, Install

LEMMA HomeNext ==
    PlainCalls /\ PlainInstall /\ HomeInstalled /\ LinkInv /\ HomeInv /\ [Step]_vars
        => HomeInv'
<1> SUFFICES ASSUME PlainCalls, PlainInstall, HomeInstalled, LinkInv, HomeInv, [Step]_vars
             PROVE  HomeInv'
  OBVIOUS
<1>1. UserHome \in Path
  BY HomeType
<1>2. /\ NoHomeYet => [Next]_vars
      /\ NoHomeYet /\ ~ (NoHomeYet') => InstallFinish
      /\ ~ NoHomeYet => ~ (NoHomeYet')
      /\ pc' = "off" => d_superblock'.installed = 1
  BY HomePhase DEF HomeInv
<1>3. Reached[UserHome] \subseteq Reached'[UserHome]
  BY <1>1, ReachedStays
<1>4. CASE NoHomeYet'
  <2>1. ZeroGoesFirst
    <3>1. Len(InstallDirs) \in Nat \ {0} /\ Len(InstallDirs) < FS_MAX_INODES
      BY ListParts
    <3> QED
      BY <3>1, SizesAssumption DEF ZeroGoesFirst, PlainInstall
  <2>2. PathInv /\ ZeroInv /\ LayInv /\ [Next]_vars
    BY <1>2, <1>4 DEF HomeInv
  <2>3. PathInv' /\ ZeroInv' /\ LayInv'
    BY <2>1, <2>2, PathNext, ZeroNext, LayNext
  <2> QED
    BY <1>2, <1>4, <2>3 DEF HomeInv
<1>5. CASE ~ (NoHomeYet')
  <2>1. Reached[UserHome] # {}
    BY <1>2, <1>5, HomeLaid DEF HomeInv
  <2> QED
    BY <1>2, <1>3, <1>5, <2>1 DEF HomeInv
<1> QED
  BY <1>4, <1>5

(***************************************************************************)
(* shell_init finds the home directory that fs_install made at every       *)
(* login, whatever calls, reboots and other sessions came in between: the  *)
(* list of directories has it and finds room, and a path that means a      *)
(* directory goes on to mean one.                                          *)
(***************************************************************************)
THEOREM HomeAtLogin ==
    ASSUME PlainCalls, PlainInstall, HomeInstalled
    PROVE  SessionSpec => SessionStartsAtHome
<1> DEFINE Inv == SessionInv /\ HomeInv
<1>1. SessionInit => Inv
  BY SessionInvInit, HomeInit
<1>2. Inv /\ [SessionNext]_sessionVars => Inv'
  <2> SUFFICES ASSUME Inv, [SessionNext]_sessionVars PROVE Inv'
    OBVIOUS
  <2>1. LinkInv /\ [Step]_vars
    BY SessionSteps DEF SessionInv
  <2> QED
    BY <2>1, SessionInvNext, HomeNext
<1>3. ASSUME Inv, [SessionNext]_sessionVars, stage = "login_password", stage' = "shell",
             ~ Ambiguous(UserHome)
      PROVE  current_dir' = UserHome
  <2>1. TypeOK /\ UserHome \in Path /\ pc = "idle" /\ task = NoTask
    BY <1>3, HomeType
       DEF SessionInv, LinkInv, BlockInv, TypeInv, SessionTypeOK, CallInv
  <2>2. PICK d : d \in Reached[UserHome]
    BY <1>3, <2>1 DEF HomeInv, NoHomeYet, NoTask
  <2>3. fs_dir_exists(UserHome)
    BY <1>3, <2>1, <2>2, UnambiguousFound
  <2>4. PICK text \in Passwords : LoginPassword(text)
    BY <1>3 DEF SessionNext, Shell, BootToLogin, BootToInstaller, TurnOn, ChoosePassword,
       ConfirmPassword, InstallStep, LoginName, RunCommand, AtPrompt, cd, cd_dotdot,
       cd_home, CommandStep, Leave_shell, sessionVars, dialogue
  <2> QED
    BY <1>3, <2>3, <2>4 DEF LoginPassword, shell_init
<1>4. Inv /\ Inv' /\ [SessionNext]_sessionVars
        => [(stage = "login_password" /\ stage' = "shell")
               => current_dir' = UserHome \/ Ambiguous(UserHome)]_sessionVars
  BY <1>3
<1> QED
  BY <1>1, <1>2, <1>4, PTL DEF SessionSpec, SessionStartsAtHome

-----------------------------------------------------------------------------
(* The entry ".." of a directory                                           *)

\* Directory d has itself at "." and c at "..", in its first two slots.
Up(d, c) ==
    /\ Entry(d, 0) = [in_use |-> TRUE, name |-> Dot, inode |-> d]
    /\ Entry(d, 1) = [in_use |-> TRUE, name |-> DotDot, inode |-> c]

\* fs_create_dir has written the block of the directory it has yet to enter.
AsWritten ==
    (pc = "dir_link" /\ frame.inode \in Directories) =>
        \A s \in Slot : Entry(frame.inode, s) =
            IF s \in StoredSlot THEN NewDirectory(frame.inode, frame.parent)[s]
            ELSE FreeEntry

\* A directory named in another has that one above it.
UpNamed ==
    \A c, d \in Directories : \A s \in Slot :
        Named(c, s) /\ Entry(c, s).inode = d => Up(d, c)

UpInv == AsWritten /\ UpNamed

\* Every name after a step was there before, and so was the directory it names.
NoNewNames ==
    \A c, d \in Directories' : \A s \in Slot :
        (Named(c, s)' /\ Entry(c, s)'.inode = d) =>
            c \in Directories /\ d \in Directories /\ Entry(c, s)' = Entry(c, s)

LEMMA WrittenIsEmpty ==
    ASSUME AsWritten
    PROVE  pc = "dir_link" => Empty(frame.inode)
<1> SUFFICES ASSUME pc = "dir_link", frame.inode \in Directories, NEW s \in Slot
             PROVE  ~ Named(frame.inode, s)
  BY DEF Empty
<1>1. Entry(frame.inode, s) = IF s \in StoredSlot
                              THEN NewDirectory(frame.inode, frame.parent)[s]
                              ELSE FreeEntry
  BY DEF AsWritten
<1>2. Dot \notin Name /\ DotDot \notin Name
  BY NamesAssumption
<1>3. \/ NewDirectory(frame.inode, frame.parent)[s].name \in {Dot, DotDot}
      \/ NewDirectory(frame.inode, frame.parent)[s] = FreeEntry
  BY DEF NewDirectory
<1> QED
  BY <1>1, <1>2, <1>3 DEF Named, FreeEntry

LEMMA WrittenIsUp ==
    ASSUME NEW d \in Inode, NEW c \in Inode,
           \A s \in Slot : Entry(d, s) = IF s \in StoredSlot THEN NewDirectory(d, c)[s]
                                         ELSE FreeEntry
    PROVE  Up(d, c)
<1>1. 0 \in Slot /\ 0 \in StoredSlot /\ 1 \in Slot /\ 1 \in StoredSlot
  BY SizesAssumption DEF Slot, StoredSlot
<1> QED
  BY <1>1 DEF Up, NewDirectory

\* The first two entries of a directory stay.
LEMMA UpStays ==
    ASSUME LinkInv, [Step]_vars, NEW c \in Directories, NEW d \in Directories,
           d \notin Awaiting, Up(d, c)
    PROVE  Up(d, c)'
<1>1. 0 \in Slot /\ 1 \in Slot
  BY SizesAssumption DEF Slot
<1>2. DirsStay
  BY StepKeepsDirs
<1>3. /\ d \in Inode /\ inode_table[d].type = "DIR"
      /\ inode_table[c].type = "DIR"
  BY DEF Directories
<1>4. Entry(d, 0)' = Entry(d, 0) /\ Entry(d, 1)' = Entry(d, 1)
  BY <1>1, <1>2, <1>3 DEF DirsStay, Up
<1> QED
  BY <1>4 DEF Up

LEMMA UpKept ==
    ASSUME LinkInv, UpInv, [Step]_vars, NoNewNames
    PROVE  UpNamed'
<1> SUFFICES ASSUME NEW c \in Directories', NEW d \in Directories', NEW s \in Slot,
                    Named(c, s)', Entry(c, s)'.inode = d
             PROVE  Up(d, c)'
  BY DEF UpNamed
<1>1. c \in Directories /\ d \in Directories /\ Entry(c, s)' = Entry(c, s)
  BY DEF NoNewNames
<1>2. Named(c, s) /\ Entry(c, s).inode = d
  BY <1>1 DEF Named
<1>3. Up(d, c)
  BY <1>1, <1>2 DEF UpInv, UpNamed
<1>4. d \notin Awaiting
  <2> SUFFICES ASSUME pc = "dir_link", d = frame.inode PROVE FALSE
    BY DEF Awaiting
  <2>1. c # d
    BY <1>1, <1>2, WrittenIsEmpty DEF UpInv, Empty
  <2>2. Unlinked(d)
    BY DEF LinkInv, Tidy, UnlinkedInv
  <2> QED
    BY <1>1, <1>2, <2>1, <2>2 DEF Unlinked, Named
<1> QED
  BY <1>1, <1>3, <1>4, UpStays

LEMMA DeletedNames ==
    ASSUME LinkInv, Deleting
    PROVE  NoNewNames
<1>0. TypeOK /\ Owned /\ pc = "delete_file"
  BY DEF LinkInv, BlockInv, TypeInv, Deleting, DeleteFileEnter
<1> DEFINE parent == find_inode_by_path(Parent(task.path))
           file == find_inode_by_path(task.path)
<1>1. /\ fs_file_exists(task.path)
      /\ free_inode(file)
      /\ write_inode_block(inode_table[parent].blocks[0],
                           DirSector(WithoutEntry(dir_entries(parent), file)))
  BY Returns DEF Deleting, DeleteFileEnter
<1>2. PICK p \in Inode, i \in Inode :
         /\ p = parent /\ inode_table[p].type = "DIR"
         /\ i = file /\ inode_table[i].type = "FILE"
  BY <1>0, <1>1, DeletedFrom
<1>3. /\ inode_table' = [inode_table EXCEPT ![i] = FreeInode]
      /\ write_inode_block(inode_table[p].blocks[0],
                           DirSector(WithoutEntry(dir_entries(p), i)))
  BY <1>1, <1>2 DEF free_inode
<1> HIDE DEF parent, file
<1>4. \A d \in Directories : inode_table'[d] = inode_table[d]
  BY <1>0, <1>2, <1>3 DEF Directories, TypeOK, RamTypeOK
<1>5. Directories' = Directories
  BY <1>0, <1>2, <1>3 DEF Directories, TypeOK, RamTypeOK, FreeInode
<1> DEFINE hits == {s \in Slot : dir_entries(p)[s].in_use /\ dir_entries(p)[s].inode = i}
<1>6. ASSUME NEW c \in Directories, NEW s \in Slot, Named(c, s)'
      PROVE  Entry(c, s)' = Entry(c, s)
  <2>1. CASE hits = {}
    <3>1. 0 \in Slot
      BY SizesAssumption DEF Slot
    <3>2. WithoutEntry(dir_entries(p), i)
              = [dir_entries(p) EXCEPT ![0] = dir_entries(p)[0]]
      BY <1>0, <2>1, <3>1, EntriesType DEF WithoutEntry
    <3>3. PICK e : e = dir_entries(p)[0]
      OBVIOUS
    <3>5. write_inode_block(inode_table[p].blocks[0],
                            DirSector([dir_entries(p) EXCEPT ![0] = e]))
      BY <1>3, <3>2, <3>3
    <3>4. \A d \in Directories : \A t \in Slot : Entry(d, t)' =
             IF d = p /\ t = 0 /\ 0 \in StoredSlot THEN e ELSE Entry(d, t)
      BY <1>0, <1>2, <1>4, <3>1, <3>5, EntryWritten
    <3> QED
      BY <3>3, <3>4 DEF Entry
  <2>2. CASE hits # {}
    <3>1. hits \in SUBSET Nat
      BY SizesAssumption DEF Slot
    <3>2. PICK f \in Slot : f = First(hits)
      BY <2>2, <3>1, FirstProperty
    <3>3. WithoutEntry(dir_entries(p), i) = [dir_entries(p) EXCEPT ![f] = FreeEntry]
      BY <2>2, <3>2 DEF WithoutEntry
    <3>5. write_inode_block(inode_table[p].blocks[0],
                            DirSector([dir_entries(p) EXCEPT ![f] = FreeEntry]))
      BY <1>3, <3>3
    <3>4. \A d \in Directories : \A t \in Slot : Entry(d, t)' =
             IF d = p /\ t = f /\ f \in StoredSlot THEN FreeEntry ELSE Entry(d, t)
      BY <1>0, <1>2, <1>4, <3>5, EntryWritten
    <3> QED
      BY <1>6, <3>4 DEF Named, FreeEntry
  <2> QED
    BY <2>1, <2>2
<1> QED
  BY <1>5, <1>6 DEF NoNewNames

LEMMA OtherNames ==
    ASSUME LinkInv, UpInv, SameNames, SameInodes
    PROVE  NoNewNames
<1> SUFFICES ASSUME NEW c \in Directories', NEW d \in Directories', NEW s \in Slot,
                    Named(c, s)', Entry(c, s)'.inode = d
             PROVE  c \in Directories /\ d \in Directories /\ Entry(c, s)' = Entry(c, s)
  BY DEF NoNewNames
<1>1. c \in Directories /\ Entry(c, s)' = Entry(c, s)
  BY DEF SameNames
<1>2. Named(c, s) /\ Entry(c, s).inode = d
  BY <1>1 DEF Named
<1>3. d \in Inode /\ inode_table[d].type # "FREE"
  BY <1>1, <1>2 DEF LinkInv, Tidy, TreeOK, EntriesLive, Live, Named
<1>4. ~ Held(d)
  <2> SUFFICES ASSUME pc \in {"dir_link", "file_data"}, d = frame.inode PROVE FALSE
    BY DEF Held
  <2>1. c # d
    BY <1>1, <1>2, WrittenIsEmpty
       DEF UpInv, Empty, LinkInv, BlockInv, LoopInv, Directories
  <2>2. Unlinked(d)
    BY DEF LinkInv, Tidy, UnlinkedInv
  <2> QED
    BY <1>1, <1>2, <2>1, <2>2 DEF Unlinked, Named
<1>5. inode_table'[d] = inode_table[d]
  BY <1>3, <1>4 DEF SameInodes
<1> QED
  BY <1>1, <1>5 DEF Directories

\* A file takes its name: no directory gets one.
LEMMA FileLinked ==
    ASSUME LinkInv, Linking, pc = "file_data"
    PROVE  NoNewNames
<1>0. TypeOK /\ Owned /\ inode_table[frame.inode].type = "FILE"
  BY DEF LinkInv, BlockInv, TypeInv, LoopInv
<1>1. PICK c \in Inode, i \in Inode :
         /\ c = frame.parent /\ inode_table[c].type = "DIR"
         /\ i = frame.inode /\ inode_table[i].type = "FILE"
  BY <1>0 DEF LinkInv, Tidy, ParentInv, HoldsParent, TypeOK, ControlTypeOK, Frame
<1> DEFINE free == {s \in Slot : ~ dir_entries(frame.parent)[s].in_use}
           entry == [in_use |-> TRUE, name |-> FileName(task.path), inode |-> frame.inode]
<1>2. /\ free # {} /\ inode_table' = inode_table
      /\ write_inode_block(inode_table[frame.parent].blocks[0],
             DirSector([dir_entries(frame.parent) EXCEPT ![First(free)] = entry]))
  BY DEF Linking, CreateDirLink, CreateFileLink, LinkEntry, GiveBack, Leave, Goto, ram
<1>3. PICK f \in Slot : f = First(free)
  <2>1. free \in SUBSET Nat
    BY SizesAssumption DEF Slot
  <2> QED
    BY <1>2, <2>1, FirstProperty
<1> HIDE DEF free
<1>4. \A d \in Directories : \A s \in Slot :
         Entry(d, s)' = IF d = c /\ s = f /\ f \in StoredSlot THEN entry ELSE Entry(d, s)
  BY <1>0, <1>1, <1>2, <1>3, EntryWritten
<1>5. Directories' = Directories
  BY <1>2 DEF Directories
<1>6. i \notin Directories
  BY <1>1 DEF Directories
<1> QED
  BY <1>1, <1>4, <1>5, <1>6 DEF NoNewNames

\* A directory takes its name in the one its block has at "..".
LEMMA DirLinked ==
    ASSUME LinkInv, UpInv, [Step]_vars, Linking, pc = "dir_link"
    PROVE  UpNamed'
<1>0. TypeOK /\ Owned
  BY DEF LinkInv, BlockInv, TypeInv
<1>1. PICK p \in Inode, i \in Inode :
         /\ p = frame.parent /\ inode_table[p].type = "DIR"
         /\ i = frame.inode /\ inode_table[i].type = "DIR" /\ Unlinked(i)
  BY <1>0 DEF LinkInv, Tidy, ParentInv, HoldsParent, UnlinkedInv, TypeOK, ControlTypeOK,
     Frame
<1> DEFINE free == {s \in Slot : ~ dir_entries(frame.parent)[s].in_use}
           name == FileName(Prefix(frame.dir, frame.depth))
           entry == [in_use |-> TRUE, name |-> name, inode |-> frame.inode]
<1>2. /\ free # {} /\ inode_table' = inode_table
      /\ write_inode_block(inode_table[frame.parent].blocks[0],
             DirSector([dir_entries(frame.parent) EXCEPT ![First(free)] = entry]))
  BY DEF Linking, CreateDirLink, CreateFileLink, LinkEntry, GiveBack, Leave, Goto, ram
<1>3. PICK f \in Slot : f = First(free) /\ ~ Entry(p, f).in_use
  <2>1. free \in SUBSET Nat
    BY SizesAssumption DEF Slot
  <2> QED
    BY <1>1, <1>2, <2>1, FirstProperty DEF Entry
<1> HIDE DEF free, name
<1>4. \A d \in Directories : \A s \in Slot :
         Entry(d, s)' = IF d = p /\ s = f /\ f \in StoredSlot THEN entry ELSE Entry(d, s)
  <2>1. write_inode_block(inode_table[p].blocks[0],
                          DirSector([dir_entries(p) EXCEPT ![f] = entry]))
    BY <1>1, <1>2, <1>3
  <2>2. \A d \in Directories : inode_table'[d] = inode_table[d]
    BY <1>2
  <2> HIDE DEF entry
  <2> QED
    BY <1>0, <1>1, <2>1, <2>2, EntryWritten
<1>5. Directories' = Directories
  BY <1>2 DEF Directories
<1>6. ASSUME NEW c \in Inode, NEW d \in Directories, Up(d, c) PROVE Up(d, c)'
  <2>1. 0 \in Slot /\ 1 \in Slot
    BY SizesAssumption DEF Slot
  <2>2. Entry(d, 0)' = Entry(d, 0) /\ Entry(d, 1)' = Entry(d, 1)
    BY <1>3, <1>4, <1>6, <2>1 DEF Up
  <2> QED
    BY <1>6, <2>2 DEF Up
<1>7. i \in Directories => Up(i, p)
  BY <1>1, WrittenIsUp DEF UpInv, AsWritten
<1> SUFFICES ASSUME NEW c \in Directories, NEW d \in Directories, NEW s \in Slot,
                    Named(c, s)', Entry(c, s)'.inode = d
             PROVE  Up(d, c)'
  BY <1>5 DEF UpNamed
<1>8. CASE c = p /\ s = f /\ f \in StoredSlot
  <2>1. d = i
    BY <1>1, <1>4, <1>8
  <2> QED
    BY <1>1, <1>6, <1>7, <1>8, <2>1
<1>9. CASE ~ (c = p /\ s = f /\ f \in StoredSlot)
  <2>1. Named(c, s) /\ Entry(c, s).inode = d
    BY <1>4, <1>9 DEF Named
  <2>2. Up(d, c)
    BY <2>1 DEF UpInv, UpNamed
  <2> QED
    BY <1>6, <2>2 DEF Directories
<1> QED
  BY <1>8, <1>9

\* Only CreateDirAlloc goes on to the entry of a new directory.
LEMMA ComesToLink ==
    ASSUME [Step]_vars, pc' = "dir_link"
    PROVE  UNCHANGED vars \/ CreateDirAlloc
<1>1. CASE InstallRoot \/ InstallSyncSuperblock \/ InstallSyncInodes \/ InstallSyncBitmap
              \/ InstallNextDir \/ InstallFinish
  BY <1>1 DEF InstallRoot, InstallSyncSuperblock, InstallSyncInodes, InstallSyncBitmap,
     InstallNextDir, InstallFinish, Goto
<1>2. CASE BootInstalled \/ PowerOn \/ SwitchOff \/ Return
              \/ \E request \in Request : Call(request)
  BY <1>2 DEF BootInstalled, PowerOn, SwitchOff, Return, Call, Goto, Request
<1>3. CASE CreateDirEnter \/ CreateDirLink \/ CreateDirSyncInodes \/ CreateDirSyncBitmap
  BY <1>3, Returns DEF CreateDirEnter, CreateDirLink, LinkEntry, GiveBack,
     CreateDirSyncInodes, CreateDirSyncBitmap, Goto
<1>4. CASE CreateFileEnter \/ CreateFileParent \/ CreateFileAlloc
  BY <1>4, Returns DEF CreateFileEnter, CreateFileParent, CreateFileAlloc, Goto
<1>5. CASE CreateFileData \/ CreateFileLink
  BY <1>5, Returns DEF CreateFileData, CreateFileLink, LinkEntry, GiveBack, Goto
<1>6. CASE CreateFileSyncInodes \/ CreateFileSyncBitmap \/ CreateFileSyncSuperblock
  BY <1>6, Returns DEF CreateFileSyncInodes, CreateFileSyncBitmap,
     CreateFileSyncSuperblock, Goto
<1>7. CASE DeleteFileEnter \/ DeleteSyncInodes \/ DeleteSyncBitmap
  BY <1>7, Returns DEF DeleteFileEnter, DeleteSyncInodes, DeleteSyncBitmap, Goto
<1> QED
  BY <1>1, <1>2, <1>3, <1>4, <1>5, <1>6, <1>7, CallsAssumption
     DEF Step, Next, Kernel, User, Boot, Install, CreateDir, CreateFile, DeleteFile

LEMMA AsWrittenNext == LinkInv /\ UpInv /\ [Step]_vars => AsWritten'
<1> SUFFICES ASSUME LinkInv, UpInv, [Step]_vars, pc' = "dir_link",
                    frame'.inode \in Directories'
             PROVE  \A s \in Slot : Entry(frame.inode, s)' =
                        IF s \in StoredSlot
                        THEN NewDirectory(frame'.inode, frame'.parent)[s] ELSE FreeEntry
  BY DEF AsWritten, NewDirectory
<1>0. TypeOK
  BY DEF LinkInv, BlockInv, TypeInv
<1>1. CASE UNCHANGED vars
  <2>1. pc = "dir_link" /\ frame' = frame /\ inode_table' = inode_table /\ d_data' = d_data
    BY <1>1 DEF vars, ram, disk, control
  <2>2. frame.inode \in Directories
    BY <2>1 DEF Directories
  <2>3. \A s \in Slot : Entry(frame.inode, s)' = Entry(frame.inode, s)
    BY <2>1, <2>2, DirKept DEF Directories
  <2> QED
    BY <2>1, <2>2, <2>3 DEF UpInv, AsWritten
<1>2. CASE CreateDirAlloc
  <2> DEFINE parent == find_inode_by_path(Prefix(frame.dir, frame.depth - 1))
  <2>1. /\ IsDirectory(parent)
        /\ allocate_inode # NoInode /\ allocate_block # NoFreeBlock
        /\ inode_table' = [inode_table EXCEPT ![allocate_inode] =
               [FreeInode EXCEPT !.type = "DIR", !.blocks[0] = allocate_block]]
        /\ write_inode_block(allocate_block,
                             DirSector(NewDirectory(allocate_inode, parent)))
        /\ frame' = [frame EXCEPT !.parent = parent, !.inode = allocate_inode]
    BY <1>2, Returns DEF CreateDirAlloc
  <2>2. PICK i \in Inode, b \in Block : i = allocate_inode /\ b = allocate_block
    BY <2>1, AllocateInode, AllocateBlock
  <2>3. frame'.inode = i /\ frame'.parent = parent
    BY <1>0, <2>1, <2>2 DEF TypeOK, ControlTypeOK, Frame
  <2> HIDE DEF parent
  <2>4. inode_table'[i].blocks[0] = b
    BY <1>0, <2>1, <2>2, ConstantTypes DEF FreeInode, TypeOK, RamTypeOK
  <2>5. b # NoBlock
    BY <2>3, <2>4 DEF Directories
  <2>6. \A s \in Slot : Entry(i, s)' =
           IF s \in StoredSlot THEN NewDirectory(i, parent)[s] ELSE FreeEntry
    BY <1>0, <2>1, <2>2, <2>4, <2>5, DirRewritten
  <2> QED
    BY <2>3, <2>6
<1> QED
  BY <1>1, <1>2, ComesToLink

LEMMA UpNext == LinkInv /\ UpInv /\ [Step]_vars => UpInv'
<1> SUFFICES ASSUME LinkInv, UpInv, [Step]_vars PROVE UpInv'
  OBVIOUS
<1>1. pc = "dir_link" => Empty(frame.inode)
  BY WrittenIsEmpty DEF UpInv
<1>2. UpNamed'
  <2>1. CASE SameNames /\ SameInodes
    BY <2>1, OtherNames, UpKept
  <2>2. CASE Deleting
    BY <2>2, DeletedNames, UpKept
  <2>3. CASE Linking
    <3>1. pc \in {"dir_link", "file_data"}
      BY <2>3 DEF Linking, CreateDirLink, CreateFileLink
    <3> QED
      BY <2>3, <3>1, FileLinked, DirLinked, UpKept
  <2> QED
    BY <1>1, <2>1, <2>2, <2>3, StepNames
<1> QED
  BY <1>2, AsWrittenNext DEF UpInv

LEMMA UpInit == SessionInit => UpInv
BY DEF SessionInit, Init, UpInv, UpNamed, AsWritten, Directories, FreeInode

\* Where the first entry called ".." is found.
LEMMA UpFound ==
    ASSUME TypeOK, NEW c \in Inode, NEW d \in Directories, Up(d, c)
    PROVE  dir_lookup[d][DotDot] = c
<1> DEFINE hits == {s \in Slot : dir_entries(d)[s].in_use /\ dir_entries(d)[s].name = DotDot}
<1>1. d \in Inode /\ inode_table[d].type = "DIR" /\ inode_table[d].blocks[0] # NoBlock
  BY DEF Directories
<1>2. 0 \notin hits
  BY DEF Up, Entry, Dot, DotDot
<1>3. 1 \in hits
  BY SizesAssumption DEF Up, Entry, Slot
<1>4. hits \in SUBSET Nat
  BY SizesAssumption DEF Slot
<1>5. IsDirectory(d) /\ DotDot \in Component /\ d \in Inode \cup {NoInode}
  BY <1>1, ConstantTypes DEF IsDirectory, Component
<1>6. dir_lookup[d][DotDot] = IF ~ IsDirectory(d) \/ inode_table[d].blocks[0] = NoBlock
                                 \/ hits = {}
                              THEN NoInode ELSE dir_entries(d)[First(hits)].inode
  BY <1>5 DEF dir_lookup
<1> HIDE DEF hits
<1>7. First(hits) \in hits /\ First(hits) <= 1
  BY <1>3, <1>4, FirstProperty
<1>8. First(hits) = 1
  <2>1. PICK n \in Nat : n = First(hits)
    BY <1>4, <1>7
  <2>2. n # 0 /\ n <= 1
    BY <1>2, <1>7, <2>1
  <2> QED
    BY <2>1, <2>2
<1> QED
  BY <1>1, <1>3, <1>5, <1>6, <1>8 DEF Up, Entry

(***************************************************************************)
(* The string and the entries never part: where a path of names leads to a *)
(* directory, what cd ".." leaves of it leads where the directory's entry  *)
(* ".." points.                                                            *)
(***************************************************************************)
THEOREM ParentAtDotDot == SessionSpec => DotDotIsParent
<1> DEFINE Inv == SessionInv /\ UpInv
<1>1. SessionInit => Inv
  BY SessionInvInit, UpInit
<1>2. Inv /\ [SessionNext]_sessionVars => Inv'
  <2> SUFFICES ASSUME Inv, [SessionNext]_sessionVars PROVE Inv'
    OBVIOUS
  <2>1. LinkInv /\ [Step]_vars
    BY SessionSteps DEF SessionInv
  <2> QED
    BY <2>1, SessionInvNext, UpNext
<1>3. ASSUME Inv, cd_dotdot, current_dir # << >>,
             \A k \in 1 .. Len(current_dir) : current_dir[k] \in Name,
             find_inode_by_path(Here) \in Directories
      PROVE  find_inode_by_path(Here)' = dir_lookup[find_inode_by_path(Here)][DotDot]
  <2>1. TypeOK /\ current_dir \in Seq(Part) /\ UpInv
    BY <1>3 DEF SessionInv, LinkInv, BlockInv, TypeInv, SessionTypeOK, Part
  <2>2. PICK path \in Path : path = current_dir
    <3>1. Len(current_dir) \in Nat /\ current_dir \in [1 .. Len(current_dir) -> Part]
      BY <2>1, LenProperties
    <3>2. current_dir \in [1 .. Len(current_dir) -> Component]
      BY <1>3, <3>1 DEF Component
    <3> QED
      BY <3>1, <3>2 DEF Path
  <2>3. Here = path /\ path # << >>
    BY <1>3, <2>2, NormalizedPath DEF Here
  <2>4. Parent(path) \in Path /\ Len(path) \in Nat \ {0}
    BY <2>3, ParentPath
  <2>5. FileName(path) \in Name
    <3>1. Len(path) \in 1 .. Len(path)
      BY <2>4
    <3> QED
      BY <1>3, <2>2, <3>1 DEF FileName
  <2>6. current_dir' = Parent(path) /\ UNCHANGED vars
    BY <1>3, <2>2 DEF cd_dotdot, CutAtLastSlash, Parent
  <2>7. Here' = Parent(path)
    BY <2>4, <2>6, NormalizedPath DEF Here
  <2>8. find_inode_by_path(Here)' = find_inode_by_path(Parent(path))
    <3>1. path_walk' = path_walk
      BY <2>6 DEF vars, ram, disk, path_walk, dir_lookup, dir_entries, IsDirectory,
         read_inode_block
    <3> QED
      BY <2>7, <3>1 DEF find_inode_by_path
  <2>9. PICK d \in Directories : d = find_inode_by_path(path) /\ d \in Inode
    BY <1>3, <2>3 DEF Directories
  <2>10. PICK c \in Directories : c = find_inode_by_path(Parent(path)) /\
            \E s \in Slot : /\ Entry(c, s).in_use
                            /\ Entry(c, s).name = FileName(path)
                            /\ Entry(c, s).inode = d
    BY <2>1, <2>3, <2>9, FoundByEntry, ConstantTypes
  <2>11. Up(d, c)
    BY <2>1, <2>5, <2>9, <2>10 DEF UpInv, UpNamed, Named
  <2> QED
    BY <2>1, <2>3, <2>8, <2>9, <2>10, <2>11, UpFound DEF Directories
<1>4. Inv /\ Inv' /\ [SessionNext]_sessionVars
        => [(/\ cd_dotdot /\ current_dir # << >>
             /\ \A k \in 1 .. Len(current_dir) : current_dir[k] \in Name
             /\ find_inode_by_path(Here) \in Directories)
            => find_inode_by_path(Here)'
                 = dir_lookup[find_inode_by_path(Here)][DotDot]]_sessionVars
  BY <1>3
<1> QED
  BY <1>1, <1>2, <1>4, PTL DEF SessionSpec, DotDotIsParent

=============================================================================
