# EphemeralOS in TLA+

EphemeralOS is a 32-bit hobby operating system in C: a boot loader, drivers for
an ATA disk, keyboard, text screen, clock and an RTL8139 card, a small file
system that is installed on the disk at first start, a login, a shell with
sixteen commands, and a network stack that serves `ping`. It has one thread of
control: no interrupts are handled and no processes exist. What makes it hard
is therefore not parallelism inside the kernel. It is state kept twice (in RAM
and on disk, or in the driver and in the card), saved in several steps that can
be cut or done in an unlucky order; resources that run out half-way through an
operation; and waiting loops that do other work while they wait.

This directory holds TLA+ models of that state, TLC configurations that check
them, and proofs that TLAPS checks.

## 1. Inventory

| Component | State it keeps | Operations | What is hard |
|---|---|---|---|
| File system (`fs/filesystem.c`) | superblock, inode table, block bitmap in RAM; their images and the data blocks on disk | `fs_install`, `fs_init`, `fs_create_dir`, `fs_create_file`, `fs_delete_file`; queries `fs_read_file`, `fs_dir_exists`, `fs_file_exists`, `fs_list_dir` (not modelled) | several disk writes per call, no journal; full disk, table or directory in the middle of a call; power failure; recursion over missing parents; block 0; a directory larger than its block |
| Disk driver (`drivers/disk.c`) | none | read and write sectors by polling | bounded waits that fail silently |
| Kernel main, installer, login (`kernel/kernel.c`, `installer/`) | current screen and answers | initialisation order, installation dialogue, `do_login`, menu | two password readers that must agree; a menu with rows below the screen; a login that never gives up |
| Shell and commands (`shell/`, `bin/`) | `current_dir`, `username`, argument buffer | parse a line, run one command at a time | lexical `..`; one call of the file system after another |
| Keyboard and screen (`drivers/keyboard.c`, `screen.c`) | `shift_pressed`; cursor, colours | `keyboard_getline`, `screen_print_char`, `screen_backspace` | line editing against a cursor that wraps and scrolls |
| Clock (`drivers/rtc.c`) | CMOS registers | read time, UNIX timestamp | torn reads, calendar edges |
| RTL8139 driver (`drivers/network.c`) | `rx_offset`, transmit descriptor | send, receive | offset in step with the card's; unbounded waits |
| Network stack (`net/`) | ARP cache, echo slots, UDP handlers, DNS and NTP answers | `ip_send`, `eth_receive_frame`, `dns_resolve`, `icmp_wait_reply` | receiving while sending (re-entry), loss, late answers |
| PCI, boot loader, string library | none that matters | straight-line | - |

Interaction: the shell calls the file system and waits; the file system calls
the disk driver for each sector; `kernel_main` chooses between the installer
and the login by what the superblock on disk says. `ping` calls DNS and ICMP,
which call IP, which polls the card and hands each frame to
`eth_receive_frame`, which may call back into IP, UDP or ARP before the outer
call goes on.

What makes each component correct:

* **File system.** Every block has at most one owner and is marked; nothing
  that is in use is lost; a directory entry names an inode in use; what the
  commands see is a tree that only the named path of a call changes; what was
  answered is still there after a reboot; a cut call harms nothing but its own
  path; every call returns.
* **Network stack.** A reported echo reply answers this request; a cache entry
  is what the neighbour said last; a resolved name is this query's answer; the
  re-entrant receive path does not disturb the call that is waiting.
* **Console.** The line in the buffer is the line on the screen; backspace
  never passes the prompt; the menu returns the option it marks; a character
  is a capital only under a Shift key.
* **Session.** The password chosen at installation opens every login; every
  session starts at home; the shell's current directory, a string, keeps
  naming the directory it stood for while the tree changes.
* **Clock.** A reading is one time, although seven registers are read while the
  chip counts; its timestamp is the calendar's; the wait for the chip ends.

## 2. Modules

| Module | Models | Used by |
|---|---|---|
| `FileSystem` | `fs/filesystem.c` over the disk, with boot, installation, shell loop, reboot | everything below |
| `FileTree` | abstract specification: a tree, and calls that change it as they say | `FileSystemTree` |
| `FileSystemTree` | `FileSystem` seen through its lookups; refinement mapping to `FileTree`; what the calls must respect for it | `MCFileSystemTree`, `MCSession`, `FileSystemCrash` |
| `FileSystemCrash` | `FileSystem` with power failure between any two disk writes | `MCFileSystemCrash` |
| `FileSystemProofs` | type correctness, block ownership, saved tables, one dirty inode, exact counters, proved | `FileSystemTreeProofs` |
| `FileSystemTreeProofs` | recursion over a path; entries and links, files left alone, proved | `FileSystemPathProofs` |
| `FileSystemPathProofs` | what is found at a path, what an installation lays out, no orphans, the refinement of `FileTree`, proved | `FileSystemCrashProofs`, `SessionProofs` |
| `FileSystemCrashProofs` | what a power failure leaves, proved | - |
| `Network` | `net/` as `ping` uses it: ARP cache, `ip_send` and the receive path inside it, ICMP echo, UDP, DNS, `cmd_ping` | `MCNetwork`, `NetworkProofs` |
| `NetworkProofs` | type correctness, unique cache entries, frames reach their hop, replies and timeouts are real, proved | - |
| `Session` | a user over `FileSystem`: installer dialogue, boot, `do_login`, the shell with `current_dir`, commands with relative paths | `MCSession`, `SessionProofs` |
| `SessionProofs` | types, the chosen password opens every login, sessions start at home, `current_dir` keeps naming its directory and has its parent at `..`, proved | - |
| `LineEditor` | abstract specification: a prompt, an edited line, what is visible of it | `Console` |
| `Console` | keyboard, line and password readers, screen, the menu; refinement mapping to `LineEditor` | `MCConsole`, `ConsoleProofs` |
| `ConsoleProofs` | cursor and buffer bounds, line on screen, nothing left behind, Shift, the menu, the refinement, proved | - |
| `Clock` | the clock chip and `drivers/rtc.c`; a reference calendar | `MCClock`, `ClockProofs` |
| `ClockProofs` | a reading is one time, its timestamp is the calendar's, proved | - |
| `MC*` | small instances for TLC; `MCFileSystemLimits` those of the file system's findings | - |

### How `FileSystem` corresponds to the code

*State.* `superblock`, `inode_table` and `block_bitmap` are the globals of
`filesystem.c`; `d_superblock`, `d_inode_table`, `d_block_bitmap` and `d_data`
are the sectors they are saved to and the data area. `pc`, `task`, `frame` and
`result` are the running call: where it is, its arguments, the locals that live
across a disk write, and what it will answer.

*Actions.* A call is cut into actions **at its disk writes**: each action ends
with at most one of them. `fs_create_file`, for instance, is `CreateFileEnter`
(checks, missing parent), `CreateFileParent`, the deletion of an old file
(`DeleteFileEnter`, `DeleteSyncInodes`, `DeleteSyncBitmap`), `CreateFileAlloc`,
one `CreateFileData` per block, `CreateFileLink` (the directory entry), and the
three syncs. The recursion of `fs_create_dir` over missing parents is a
descent to the longest prefix whose parent exists followed by one round of
`CreateDirAlloc .. CreateDirSyncBitmap` per level; `frame.depth` is the level.
Error paths are disjuncts of the action they leave from. `InstallRoot` to
`InstallFinish` are `fs_install`, which calls the same `fs_create_dir`.

*Abstractions.*

* A path is the sequence of its components: `normalize_path` has run, and
  names shorter than `FS_MAX_FILENAME` (28) and paths shorter than 256 bytes
  are all there are. The shell builds paths that respect the second bound only
  for short arguments; longer ones are outside the model.
* Sizes are in blocks and a block of a file is one value.
* `parent_inode`, the name, user and hash fields are left out: nothing the
  properties speak of reads them.
* The sync of a table is one write. `OneDirtyInode` is the reason: a torn
  table differs from a whole one in one inode only. An inode that straddles
  two sectors (60 bytes do not divide 512) could itself be torn; that is not
  modelled.
* A directory in RAM has `FS_MAX_DIR_ENTRIES` entries and its block on disk
  carries only `SECTOR_DIR_ENTRIES` of them, as in the code (15 and 14).
* `load_inode_table` reads whole sectors into a table that is not a whole
  number of sectors, so it writes past its end; likewise the superblock and the
  bitmap. What lies there is the next table, which is loaded next, or a buffer
  that is always written before it is read. That depends on the order the
  compiler gives the globals; the model takes the order the Makefile's build
  gives, in which nothing is lost.
* The disk answers. The time-outs of `disk.c` are not modelled.
* The disk is blank before the installation. Installing over old tables is not modelled.
* `fs_list_dir`, which changes nothing and of which only `ls` makes use, is left out, and
  `fs_format`, which is called from nowhere.

### How `FileTree` relates to it

`FileSystemTree` reads the concrete state with the code's own queries:
`Tree` maps each path of `Paths` to what `fs_dir_exists`, `fs_file_exists` and
`fs_read_file` return. `ImplementsFileTree` says that under this mapping each
step is a step of `FileTree` or none: the entry write of a deletion is
`Remove`, that of a creation is `Put`, one level of `mkdir` is `MakeDir`;
syncs are stutters, and so is a reboot, because `FileTree` has no second copy
to lose. The answer of a call is part of the refinement: `Succeed` requires
that what was asked has been done, `Fail` that it has not.
A failed call may have had an effect on the way (parents made, old file
removed), which `FileTree` states by letting `Fail` follow `MakeDir` or `Remove`.

### How `Network` corresponds to the code

*State.* `arp_cache`, `ping_states`, `icmp_timer` and `resolution_complete` are
the globals of `arp.c`, `icmp.c` and `dns.c`. `pc`, `target`, `i` and `limit`
are the locals of `cmd_ping` and of the wait it is in; `report` is what it
printed last. `calls` is the C stack above the command: one record per running
`ip_send` with its packet, the place it has reached and its loop counter.
`wire` and `repeats` stand for the card and the link; `out`, `session` and
`heard` are history, read by properties only.

*Actions.* The command advances when `calls` is empty, and otherwise the
innermost `ip_send` does. `IpResolve` is the cache lookup and either the
transmission or the ARP request; `IpPoll` is one `network_receive_packet` with
the whole of `eth_receive_frame` on what it got; `IpCheck` is the lookup after it
and what follows: transmit, poll again or drop the packet. A received echo
request puts another `ip_send` on top, so a chain of polls inside polls
can grow as deep as requests arrive. `DnsPoll` and `WaitPoll` are the polls of `dns_resolve`
and `icmp_wait_reply`, `WaitScan` the scan of the slots that follows one.
`EchoSend` is `icmp_send_echo_request` up to its call of `ip_send`.

*Abstractions.*

* A hardware address is written as the IP address of its owner. Frames are
  well-formed; the checks of lengths and versions pass.
* The hosts, the link and the card are external: an ARP request is answered by
  its target; an echo request or a DNS query by its target when it was sent
  to the right next hop; every answer may come late, out of order, never, or
  again (`MaxRepeats`). The card takes frames for anybody, as `network_init`
  configures it.
* `ping` finds the card ready and an address set (`ping.c:49`). A packet
  sent to everybody, which `ip_receive` takes like one sent to us, is one sent to us.
* Hosts take our packets although the code writes their checksums with the two
  bytes exchanged (`ip.c:74`: `ip_checksum` adds the words as they lie in memory
  and `htons` is applied to the sum). A host that drops them is the case
  in which no answer comes, which the model includes.
* A name stands for the host the user meant; the parsing of the answer is left
  out, and so is `ntp_sync_time`, which nothing calls. The handler of port 123
  sets variables nothing reads.
* `arp_timer` never advances, so in a full cache the entry replaced is the first.

### How `Session` corresponds to the code

*State.* `stage` is what the user is asked for: the installer's two password
prompts, the two of `do_login`, the shell, or a machine that is starting.
`account` is `superblock.password_hash` and `d_account` its image on disk, kept
beside the counters of `FileSystem`'s superblock and saved by the same syncs
(`SavesSuperblock`). `chosen` is history. `current_dir` is the shell's string.

*Actions.* All file-system steps are those of `FileSystem`, conjoined with what
the caller keeps: `ConfirmPassword` is the comparison in `installer_run` with the first
step of `fs_install`, `InstallStep` the rest of it, `BootToLogin` is
`fs_init`, `CommandStep` the steps of a running command. `RunCommand` builds
the path of `touch`, `mkdir`, `rm` and `echo` from `current_dir` and the
argument. `cd` is `fs_change_dir` with any path but `..`, which is
`cd_dotdot`; `cd_home` is `cd` without an argument.

*Abstractions.* A line is typed in one step. A path is the sequence of what
lies between slashes, with empty parts where slashes are doubled or at the end,
so that `cd d/..` and `cd d/` are kept as typed, as the code keeps them.
`password_hash` holds 32 shifted bytes of a 32-bit number from which that number can
be read back, so it is that number here. Paths stay below 256 bytes (`MaxPath`). The user
name is a constant of fewer than 28 characters: the installer accepts up to 63, but
`fs_create_dir` refuses the home of a longer one and its sessions start at `/`. The host name is left out. The recursion of `do_login` is a loop.

### How `Console` corresponds to the code

*State.* `video`, `cursor_x`, `cursor_y` and `shift_pressed` are those of
`screen.c` and `keyboard.c`; `buffer` is the line and its length the index of
`keyboard_getline`; `mode`, `out` and `pending` are the running program: what it
reads, and what it has yet to print. `held` is history.

*Actions.* One action is one character printed or one scan code read. `Enter`,
`Erase` and `Store` are the three branches of `keyboard_getline` and of both
`keyboard_getline_password`, which differ from it in `Echo` only. `NextRow` is
the end of a row with `scroll_down`. The menu of `kernel_main` is
`OpenMenu` (its text), `DrawLine` (`screen_set_row` and the start of a
line), `Arrow`, `MenuEnter` (ENTER pressed) and `MenuReturn` (ENTER released,
and what the screen and the keyboard are reset to after it).

*Abstractions.* Colours are left out. So are the scan codes that change
nothing, and the Shift codes that a keyboard sends on its own after a prefix, around
Print Screen and, under Num Lock, around the arrows: the code skips the prefix and takes
them for a Shift key (`keyboard.c:48`), so `ShiftFollowsKeys` is not claimed for them.
Interrupting a line by switching the machine off is left out: nothing of the
console outlives it. A prompt and the longest line together leave a row of the screen
free (`PromptAssumption`: 640 of 2000 characters at most in the code); without
that, the start of the line would scroll away under Backspace.

`LineEditor` says what a caller of `keyboard_getline` relies on, without screen
or keys: the prompt stays, the visible text is the line, and Enter hands over
what was visible. The mapping reads `visible` off video memory before the cursor.

### How `Clock` corresponds to the code

`rtc_get_time` is `Begin`, `Waited` (the loop on `is_updating`, which takes bit 7 of
register A from beside the chip's divider and rate bits, `RATE`), one
`ReadRegister` per port access in the order of the code, `Decode` (register B,
BCD, the century) and `Return`. Between any two of them the chip may count a second, if its
`Update` has been announced. The chip's rule is external: the bit rises at least
244 microseconds before the registers change, in which the seven reads
fit (`MARGIN >= 7`). `days_before_year` and `days_before_month` are the
loops of `rtc_get_unix_timestamp` as recursive functions; `DaysToYear` and
`DaysToMonth` are the reference, the closed rule of the Gregorian calendar.
A timestamp is a pair of days and seconds, since the code's 32-bit sum cannot
overflow before 2106 and the chip ends at 2099. `Pass` skips to the last second of an hour
while nobody is reading. The only caller of `rtc_get_unix_timestamp` is
`ntp_sync_time`, which nothing calls; `kernel_main` and `date` use the reading.

## 3. Runs

Constants are the code's with small values; each keeps the order relations that
matter (`SECTOR_DIR_ENTRIES <= FS_MAX_DIR_ENTRIES`, direct blocks fewer than
the largest size, fewer inodes and blocks than the requests could use).

| Run | Instance | Shows |
|---|---|---|
| `filesystem` | 6 inodes, 6 blocks, 2 direct blocks, 15/14 entries as 5/4, 9 requests that collide, 3 boots | type, ownership, links, saved tables, counters, stable content, every call returns |
| `file_tree` | 6 inodes, 6 blocks, 15/14 entries as 6/5, 3 boots; the disk can fill up in the middle of a file | no orphans, refinement of `FileTree` |
| `crash` | 6 inodes, 6 blocks, 2 boots, two power failures | a cut call harms only its own path, never shows half a file; a cut deletion only leaks, also under later calls; a cut installation leaves an empty disk or its first directories |
| `touch_in_bin` | violation | finding 1 |
| `full_directory` | violation | finding 2 |
| `long_file` | violation | finding 3 |
| `network` | 2 cache entries, 4 slots, 2 echo requests per ping, 2 ARP polls, 1 poll per wait, 2 pings, a gateway, two neighbours and a host behind the gateway, 4 unsolicited packets, 1 repeat | type and polling bound, one cache entry per neighbour, frames reach their hop, reports agree with what was received, ping returns |
| `stale_reply` | violation; quiet link, 2 pings of 1 request | finding 4 |
| `names` | violation; quiet link, 2 polls for DNS | finding 5 |
| `session` | 6 inodes, 6 blocks, 3 boots, buffers of 3 bytes, a hash of 4 bits, 4 passwords, 5 commands that collide, 6 arguments of `cd`, paths of 4 parts | the chosen password opens, sessions start at home, `current_dir` keeps naming a directory and the same one, `..` is the parent |
| `console` | a screen of 3 rows of 4 columns, lines of up to 4 characters, prompts of 1 and 2, two Shift keys, a menu with its last lines below the screen | cursor and buffer bounds, line on screen, nothing left behind, Shift, the menu's choice, refinement of `LineEditor` |
| `clock` | the years 2000, 2023, 2024 and 2099, the ends of two hours, 7 reads of margin | one time per reading, exact timestamps, every read returns |

**Bounds, file system.** `MaxBoots` bounds how often the machine is switched on (3 in
`filesystem` and `file_tree`: installation, one session, one session after a
reboot; a session has no bound on its calls, so the state graph is that of
arbitrarily long sequences of calls). The instances are small enough that disk
and inode table fill up, and large enough that each call succeeds in some state.
In `file_tree` three blocks are left after the installation: a file can meet the
full disk at its second block, an overwrite can fail after it has deleted the old
file, and a directory can find an inode and no block. That a directory is full,
by contrast, is noticed in `session` only, where RAM and sector hold
five entries each. With 15 and 14, as in the code and in proportion in the other
instances, the last entry in RAM never comes back from the disk, so one always seems free.
`WORD` replaces 2^32 with 16; the counters never come near it (a part of
`CountersExact`).

**Bounds, crash.** `MaxCrashes` is 2, and the second failure comes only after one that
found no call running or a deletion (`Harmless`). After any other failure the first
boot is looked at, and the calls from then on are not: an entry may name a free inode, which a
later `touch` gives to another file. The proofs count no failures.

**Bounds, network.** Three hosts send ARP packets for two cache entries: the
gateway and the neighbour that is pinged answer requests, and a third host asks on its
own. So valid entries are replaced, among them the one that the waiting
`ip_send` is about to look up. Four
slots for at most four requests mean no slot is missing, so `AnswersAreReported`
holds; with `REPLY_AGE` 1 instead of 5000 slots with answers do age and
are used again. The time-outs of one or two polls against 1000 to 5000 keep
what matters: an answer can come before, at or after the last poll. The
unsolicited packets are one of each kind that reaches a different handler.
The constants satisfy the hypothesis of `TimeoutsAreReal`. `MaxPings` 2 is what it takes for one ping to meet another's leftovers.

**Bounds, session.** Two of the passwords are cut to the same line, and a third
has the same hash, so that a login may succeed with another password than the
chosen one: only its acceptance is claimed. `MCCommands` can delete a file made before a
directory and put a file in its entry, so that the file hides the directory. That is the
exception `Ambiguous` in the properties; without it `CurrentDirExists` is violated. One
argument of `cd` is `/bin`, the directory without a block of its own. The installed
directories satisfy the hypotheses of `HomeAtLogin`, which TLC evaluates (`InstallIsPlain`).

**Bounds, console.** On a screen of twelve cells a line wraps twice, and the first
prompts already scroll. A larger screen adds no case: the proofs do not
depend on its size.

**Bounds, clock.** `Years` holds the leap year of a century, a new year into a leap
year, and the last year of two digits; within a year every day is passed, at its first
second and at the last of the hours 9 (a carry into the tens) and 23 (into the date).

`file_tree` and `crash` restrict `Requests` to what the implementation carries
out (`PlainCalls`, `ShortFiles`, `PlainInstall`, `RoomForCalls` and `CallsSeen` of
`FileSystemTree`, which the proofs assume and TLC evaluates on both instances): no call under `/bin` (block 0), no directory beyond its sector, no file
beyond its direct blocks, no file put where a directory is. Those four are
where the implementation differs from the tree; the three `violation` runs
show the first three. The fourth, a file made over a directory, leaves two
entries of one name, of which lookups find the first: the directory, or the file
if an earlier entry had become free, and then the directory and all below it
are out of reach. It stays in the `filesystem` run, whose properties hold all the
same, and in `session`.

**Fairness.** `WF_vars(Kernel)`: the kernel is one instruction stream that
nothing preempts, and its waits for the disk are bounded loops, so a step it
can take is taken. What the user does (`Call`, `SwitchOff`, `PowerOn`) is not
fair. `CallReturns` rests on this alone.
In `Network`, too, `WF_vars(Kernel)` is all: the command is the only thread, and
each wait counts its polls. Nothing makes a frame arrive, so `PingReturns` holds
when every frame is lost; that it holds when they all arrive inside
each other is because each frame is handed over a bounded number of times, the
network being silent unless spoken to.
Power failures (`CrashSpec`) are checked for safety only.
In `Clock` the driver is again the only thread, so its steps are weakly fair. The
chip ends an update it has announced (`WF` of `Update`). The wait alone is
strongly fair (`SF` of `Waited`): the bit is set for about 2 ms of each second, a turn
of the loop takes microseconds, so it cannot meet every one of those
windows and miss the rest of the second.
`Session` and `Console` are checked for safety only: what happens next is up
to the user.

**Deadlock** is checked in every run: the system can always do something, up to
the bounds, because with its last boot it keeps taking calls, and in `Network`
the shell goes on with other commands after the last ping (`OtherCommand`).

**Mutants.** Definitions marked as mutants in the modules are plausible
mistakes in the code they stand next to; each property is violated when its
mutant replaces the definition (PROJECT.json). They are used by nothing else.

## 4. What the code does not do as documented

1. `touch_in_bin`. `fs_install` reserves block 1 for the root but not block 0.
   The first directory it makes, `/bin`, gets block 0, which the block reader
   and writer take for "no block". Everything put into `/bin` is dropped and
   answered with success.
2. `full_directory`. Fifteen entries of 36 bytes are 540 bytes. The fifteenth
   is written past the block and lost; `mkdir` answers success, and
   the inode and block stay in use without an entry.
3. `long_file`. The README promises 16 KB in 12 direct blocks of 512 bytes.
   12 blocks are 6 KB; the rest is accepted, not stored, and still counted in
   the size.
4. `stale_reply`. `icmp_wait_reply` accepts any slot for the host and the
   sequence number with `received` set, and nothing clears it when a ping ends. A second ping of a
   host that has gone silent reports the first one's replies.
5. `names`. A query leaves from port 12345 and the answer's handler is
   registered on port 53: the answer is dropped and no name resolves.

## 5. Proofs

The theorems hold for all values of the constants that satisfy the assumptions
named in the modules: `SizesAssumption`, `NamesAssumption` and `CallsAssumption`
in `FileSystem`, `NetworkAssumption` and `HostsAssumption` in `Network`,
`ScreenAssumption`, `CharAssumption`, `PromptAssumption` and `MenuAssumption` in
`Console`, `ClockAssumption` in `Clock`, `SessionAssumption` in `Session`,
`PathsAssumption` in `FileSystemTree`, `CrashesAssumption` in `FileSystemCrash`.
A theorem that asks for more says so below.

| Theorem | States |
|---|---|
| `TypeCorrect` | `Spec => []TypeOK` |
| `BlocksOwned` | `Spec => []BlockOwnership` |
| `SavedAtRest` | `Spec => []SyncedAtRest` |
| `OneDirty` | `Spec => []OneDirtyInode` |
| `CountersCount` | `Spec => []CountersExact` |
| `NothingDangles` | `Spec => []NoDanglingEntries` |
| `FilesSpared` | `Spec => FileContentStable` |
| `NothingOrphaned` | `Spec => []NoOrphans`, if `PlainCalls`, `PlainInstall`, `RoomForCalls` |
| `TreeImplemented` | `Spec => ImplementsFileTree`, if `PlainCalls`, `ShortFiles`, `PlainInstall`, `RoomForCalls`, `CallsSeen` |
| `DeletionsOnlyLeak` | `CrashSpec => []CrashedDeleteOnlyLeaks` |
| `FailuresConfined` | `CrashSpec => []CrashSparesOtherPaths`, if `PlainCalls` |
| `NeverHalfAFile` | `CrashSpec => []CrashOldNewOrNothing`, if `PlainCalls`, `ShortFiles`, `ZeroGoesFirst` |
| `CutInstallIsAPrefix` | `CrashSpec => []CrashedInstallIsPrefix`, if `PlainCalls`, `PlainInstall` |
| `NetworkTypeCorrect` | `Spec => []TypeOK` (of `Network`) |
| `CacheUnique` | `Spec => []OneEntryPerNeighbour` |
| `HopReached` | `Spec => []FramesReachNextHop` |
| `RepliesReceived` | `Spec => []RepliesAreReal` |
| `TimeoutsAreReal` | `Spec => []AnswersAreReported`, if `MaxPings * PING_COUNT <= MAX_PING_STATES` |
| `ConsoleTypeCorrect` | `ConsoleSpec => []ConsoleTypeOK` |
| `LineStaysOnScreen` | `ConsoleSpec => []LineOnScreen` |
| `NothingLeftBehind` | `ConsoleSpec => []BlankAfterCursor` |
| `ShiftHeld` | `ConsoleSpec => []ShiftFollowsKeys` |
| `MenuShowsItsChoice` | `ConsoleSpec => []MenuShowsChoice` |
| `ConsoleRefinesLineEditor` | `ConsoleSpec => ImplementsLineEditor` |
| `OneTimeRead` | `ClockSpec => []ReadingIsOneTime` |
| `TimestampIsExact` | `ClockSpec => []TimestampExact` |
| `ChosenPasswordAccepted` | `SessionSpec => []ChosenPasswordOpens` |
| `SessionTyped` | `SessionSpec => []SessionTypeOK` |
| `HereIsADirectory` | `SessionSpec => []CurrentDirExists` |
| `HereStays` | `SessionSpec => CurrentDirStays` |
| `HomeAtLogin` | `SessionSpec => SessionStartsAtHome`, if `PlainCalls`, `PlainInstall`, `HomeInstalled` |
| `ParentAtDotDot` | `SessionSpec => DotDotIsParent` |

**Type correctness of the file system.** `TypeOK` is not inductive: `CreateFileData` indexes
`blocks` with `frame.i` and the content with `frame.i + 1`, and
`CreateDirAlloc` takes a prefix of `frame.dir`. The strengthening adds what a
running call knows of its own locals (which label needs which operation, that
the depth is within the path, that the loop counter is within the direct
blocks). The lookups are the interesting lemmas. The type needs little of
`path_walk`: `find_inode_by_path` filters whatever the walk yields, and
`dir_lookup` returns an inode that a stored entry holds. What the walk does yield
is proved later, with the tree.

The invariants of the file system are shown for `Step == Next \/ \E request \in Request :
Call(request)`, any call at any time, and not only for the calls in `Requests`. So they
hold for whatever program calls the file system, the shell of `Session` included.

**Block ownership.** `BlockOwnership` mentions the bitmap and the inode table in
RAM only, but a reboot replaces both from disk. The invariant `BlockInv` is
therefore the conjunction of

* `TypeInv`, the strengthened type invariant (`TypeOK` and `CallInv`, what a
  running call knows of its locals);
* `Owned`: the blocks of an inode are marked and no other's. The rest of
  `BlockOwnership`, that no other block is marked (`NoLeak`), is kept beside the
  invariant (`Whole`), because it is what a cut deletion breaks;
* `FreeIsBlank`: a free inode has no blocks, so that allocation starts clean;
* `InstalledInv`: what the superblock in RAM and on disk says at the labels of
  the boot and of the installation;
* `SavedInv`: how the inode table and the bitmap on disk relate to those in RAM
  at each label. At the labels of `Settled` they are equal; at those of
  `Building` the disk lacks exactly `frame.inode` and its blocks; between the
  syncs of a deletion the tables differ in one inode. `Marked` and
  `SavedMarks` are the two bitmaps without block 0, which nobody owns;
* `LoopInv`: the loop of `fs_create_file` has filled only the blocks below its
  counter, so its next slot is empty.

Four lemmas carry the argument: `SameBlocks` (a step that changes no block
number), `GainBlock` (a fresh block is given to one inode), `LoseBlocks` (an
inode gives back all it has), and `SettledStep` (what one sync settles). Each
action is one of these. `BlockNext` puts them together, and the three theorems
follow from the invariant with PTL.

**Counters.** `CountInv` adds to `BlockInv` where the counters are exact. `Exact` cannot hold
for ever, since only one call in three saves the superblock and a reboot after a session loads
stale counters (nothing reads them but the next change); `CountersExact` is about the first two boots. `FirstBoot` says that the first is
an installation, `Reloaded` that `fs_install` reads back the
superblock it has just written, and `Fresh` that the first reboot loads counters that agree
with the bitmap it loads. `MadeInv` is for the error path of `fs_create_dir`:
what is given back was in use. `free_inode` counts the direct blocks of an inode
that are not 0; by `BlockOwnership` no block is held twice, so they are as many
as the blocks it clears in the bitmap (`HeldOnce`, a bijection). A counter stays within the
number of inodes or blocks, so it does not wrap around (`NoWrap`).

**Tree.** A path is walked by a recursive function over sequences. The library's induction
theorems take an operator as a parameter and cannot be used, so `Induction` states induction with a set,
`SeqRecursion` exhibits the function that a recursion from the front of a
sequence defines, and `PathWalk` applies it: a path leads to what its last name is
in the directory to which its parent leads. `LinkInv` adds four parts to `BlockInv`:

* `TreeOK`: each entry in use names an inode in use (`EntriesLive`), and no file
  has two entries (`OneLink`), without which a deletion would leave one dangling;
* `ParentInv`: the parent whose number a call holds across its disk writes, and
  `fs_create_file` across a whole deletion, stays a directory;
* `UnlinkedInv`: nothing names yet the inode that waits for its entry;
* `RootInv`: no call frees the root.

`NothingDangles` is `EntriesLive` at the paths. `FilesSpared` is an action property:
in each step, an inode that is a file before and after it keeps its size, blocks and
data unless it is the one being written (`StepSpares`). `StepKeepsDirs` is the other
half of stability: no step removes a directory or an entry that names one.

**What the theorems about paths assume.** Without these conditions the code does not do what
the properties say; each excludes calls, never states.

* `PlainCalls`: the paths of calls are made of names, not of `.` and `..`, and none
  is used both for a file and for a directory. `fs_create_file` does not look whether
  the path is a directory, and makes a second entry of that name.
* `ShortFiles`: contents fit the direct blocks (finding 3).
* `ZeroGoesFirst`: block 0 goes to the first installed directory, as it does in
  the code, and not to a file, whose data would be dropped.
* `PlainInstall`: the list of installed directories names each once, parents first, and
  fits the tables. The list of the code does.
* `RoomForCalls`: nothing goes below the first installed directory (finding 1), and
  what the calls may put into a directory fits its sector (finding 2). A directory that
  fills up is no exception when RAM and sector hold the same number of entries.
* `CallsSeen`: the paths looked at are those that the calls name or pass through.

**Paths.** `PathInv` relates a running call to the tree. `NamesInv` says that a name stands once
in a directory, an inode has one name and the root none, so that two paths to
an inode are the same (`OnePath`). `CalledInv` and `DirInv` say
which call runs and which directory it has to make. `PlaceInv` says what is found at the
paths of the call at each label: the directory being made is absent before its entry is
written and empty after it, the parent whose number the call holds is
still what the parent's path leads to. `KindInv` keeps directories where no call puts a file.
From these follows what a step changes of the walk of every path: a new entry
adds the path it completes, a deletion takes one away, and nothing else moves.
`StoreInv` adds what a file holds while its loop writes it and that block 0 is
given out once (`ZeroInv`); `LayInv` what the tables are, exactly, after each
directory of an installation.

**No orphans.** A full directory is noticed and the inode given back, but an entry past the sector, or
in a directory without a block, is lost unnoticed. So the theorem has to show that neither happens. `RoomInv` says that the first two
entries of a directory are `.` and `..` and the others named (`DotsInv`), that files
stand where calls put them (`FileInv`), and that only the first installed directory has block 0
(`HoldInv`). A directory then holds at most what `Below` lists for its path, and by
counting, an entry is free below the end of the sector (`RoomLeft`). `ReachInv` is the
invariant: an inode in use is found over a path or is the one that the running call has not linked yet.

**The refinement.** `RefInv` joins all of this. Each step of `FileSystem` is one of five
steps of `FileTree`, or a stutter: one lemma for each of them
(`AsStutter`, `AsFail`, `AsSucceed`, `AsMakeDir`, `AsPut`, `AsRemove`) turns what a
step does to the walks and to `Status` into the abstract step, and `StatusTable` is the
mapping of labels. `PhaseInv` says that the machine installs when it is switched on first and
never again, which makes `Installing` what it says. `LinkedInv` is for
`Succeed`: a directory that is being saved is there.

**Power failures.** A failure replaces RAM by the disk, so each invariant is about both.
`DeletionsOnlyLeak` asks nothing of the calls: `LeakInv` adds to `LinkInv` that the
disk is sound at the labels of a deletion (`DeletedInv`). It survives any
number of cut deletions, since `Owned` allows blocks that nobody has. For the others
`ConfinedInv` compares with `before`, the tree at the last call: while a call runs, what the
shell sees has changed at no other path (`Calling`), and after a failure it is the
disk that is compared (`Resumed`), until the next call. A failure in the middle
shows the tree with the last entry written and the inode table of the last
sync: an entry whose inode is still free there leads to nothing, which is why the code's
order, entry before inode, harms nobody. `OldOrNewInv` adds what may stand at the path itself. `PrefixInv` does the same
for the installation, with `LayInv` for the tables of each cut.

**Network.** One invariant, `NetInv`, gives the first four theorems. Its half `PollInv`
is what any poll keeps, at whatever depth: the types of stack and link; `CacheInv`;
`SlotInv`, that a marked slot has an answer behind it; and `FramesReachNextHop`.
`CacheInv` carries the argument: the search of `arp_add_entry` stops at the
first unused entry, so uniqueness needs that the used entries are a prefix of the
cache, and the replaced or new entry keeps that. `Polled` proves that each kind of packet
keeps `PollInv`, one lemma per handler; `Transmitted` that a packet leaves for its
hop because a cache entry holds its owner's address. The other half, `CommandInv`,
speaks of `ping` only, and a poll keeps it because answers are never forgotten.

`TimeoutsAreReal` needs `ReportInv`, which follows each answer from the wire to its slot.
What carries a ping's tag was sent by it or answers what it sent (`Traced`, of the
packets on the wire, in the nested calls, and of those heard). The slot of a request is preceded only
by slots with an answer (`RecordedIn`), so that `icmp_receive`, which marks the first
slot that fits and has none, marks this one. Then an answer that was heard is marked
(`Marked`), and every wait that ends without one has looked at the slots after its last poll
(`Waiting`). The hypothesis `MaxPings * PING_COUNT <= MAX_PING_STATES` says that slots
are left for every request of the run (`SlotsLeft`): with 16 slots, four pings of four
requests. Without it the request may go unrecorded (the hazard at `icmp.c:46`),
and the property is false. `NetworkAssumption` keeps
sequence numbers apart from the port of the DNS query, whose answers are
found by port.

**Console.** The screen is seen as one row of cells with a position. Printing a
character adds one to the position, and the step over a row's end is the same
step, because the cells are numbered row by row; scrolling slides the
picture and the position by one row together, and so changes nothing that
stands before the cursor as long as it is within the screen. `PromptAssumption`
gives that. `LineInv` is `LineOnScreen` with what the program is doing: what it
has yet to print is a tail of the prompt (`PromptInv`), and lines are pending
in the menu only (`PendingInMenu`). `LineOnScreen` alone is not
inductive: without them a character printed need not be the next of the prompt. The refinement maps each key to a step of
`LineEditor` by the same facts, and every other step to `Idle` or a stutter.

`MenuInv` follows the two options of the menu from the list of lines to draw to the screen. They are its
last two lines and both go to the last row. Either both are pending
(`OptionsPending`), or the first is on the row and the second pending (`FirstDrawn`), or both
are there (`BothDrawn`); within a line, `RowShown` says that what stands on the row
followed by what is still to be printed is the beginning of the two. An arrow key makes all lines pending
again with the other option marked, and so starts over.

**Clock.** `ClockInv` says that as long as a read remains the chip's time is the one at which
the wait ended, and that, if an update is announced, the reads still to come are
no more than those that fit before it (`next + margin >= 8`); the registers read so far hold
the digits of that time. The decoding is inverted by arithmetic on two digits.
`TimestampIsExact` compares the loops of `rtc_get_unix_timestamp` with the
calendar: the loop over the years by induction on the year (`YearLoop`), the loop over
the months month by month (`MonthLoop`). `DateInv` says that the chip keeps a
date and its day of the week as seconds go by (`NextSecondDated`), so what is read is one.

**Session.** `ChosenPasswordOpens` follows the hash through its copies. `AccountInv` says
which of them hold the chosen password's: the installer's first answer is
the line of `chosen`; the account in RAM from the installation to the menu and
from the boot on; the account on disk whenever the superblock there says
installed, which is what the next boot asks. Between the sync of the superblock and that of
the bitmap `fs_install` has yet to load the account back, which is the last
conjunct. That no other call touches the superblock on disk is shown action
by action (`CreateDirLeaves`, `CreateFileLeaves`, `DeleteFileLeaves`). Nothing is assumed of the hash.

`SessionSteps` shows that each step of a session is a `Step` of `FileSystem` or leaves it
alone, which carries over `LinkInv` and `StepKeepsDirs`. For `HereIsADirectory` the walk itself
is not enough: a file may come to stand before a directory of the same name, and
the path then means the file. `Reached[path]` is the set of directories a path can
mean, through whichever entry; it only grows (`ReachedStays`), because no call removes a directory or an
entry that names one. `HereInv` says that the set of `current_dir` is not
empty. A path that is not `Ambiguous` leads to the only member
(`UnambiguousFound`), which gives `CurrentDirExists`, and to the same one before and after a step,
which gives `CurrentDirStays`. `SessionTyped` needs the range of the hash
(`HashType`) and of the path builder (`Normalized`), both recursive over sequences. `SessionAssumption` asks for
paths of two parts or more and for the name `home`, without which `/home/user` is no path.

`SessionStartsAtHome` joins two proofs. Until `InstallFinish`, `HomeInv` keeps the exact tables of
an installation (`LayInv`), which say that the directory at `/home/user` was found and
linked (`HomeLaid`); from then on that some directory is `Reached` there, which stays. No
installation begins again (`HomePhase`), so one of the two holds at every login.
`HomeInstalled` says that the list of directories has the home. `PlainCalls` and `PlainInstall`
bear on that list only here: what the shell calls is not taken from `Requests`.

`DotDotIsParent` compares the string with the disk. `UpNamed` says that a directory with a name
in another has that one in its second entry. `fs_create_dir` writes the block first and the
name later, in the parent whose number it held in between, so `AsWritten` keeps what the block
says until then. Nothing replaces the two entries: a slot in use is not given out, and a deletion
clears entries of files (`UpStays`). A directory that was given block 0 has no entries,
and the property leaves it out.

**Only model-checked.** Liveness: `CallReturns`, `PingReturns` and `ReadReturns` rest on fairness and
`ENABLED`, which the prover does not handle.

## 6. Plan

What would come next:

1. A disk that times out: a write that is dropped, a read that yields zeros.
   Every table is saved whole each time, so a lost sync is repaired by the
   next; how far that goes could be stated and checked.
2. `parse_command`: words and quotes, twenty arguments of 63 characters.

The core, the file system, was modelled first because everything the user
keeps is in it; the network second, because it has the only re-entrant code;
then what stands between the user and both.

## 7. Not modelled

* The boot loader, PCI scan and string library: straight-line code.
* ATA time-outs and torn sectors (see the abstractions above).
* The receive ring of the RTL8139. The driver advances its offset by the length it
  takes from the header; whether that is where the card puts the next packet
  depends on the card's rules, of which the repository says nothing. The waits
  for the card's reset and for the end of a transmission end when the card says so.
* Malformed frames, fragments, the contents of DNS answers, the checksum, NTP.
* The splitting of a command line, the prompt, the formats of `ls`, `date`, `help`
  and of the greeting after the login; colours.
* The stack that `do_login` uses up with each wrong answer.
* The 12-hour branch of `rtc_get_time`: `rtc_init` selects 24 hours.
* The keyboard's prefix codes (0xE0): they have the release bit and are skipped. A
  Shift code after one (Print Screen, arrows under Num Lock) does set the flag; see `Console`.
