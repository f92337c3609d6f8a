# SmartNIC SoC SDK: verification project

The SDK builds the firmware, the boot chain, a maintenance kernel and the root file
system for the ARM SoC of a SmartNIC (the lx2162a "u26z" board).  Most of the repository
is configuration and patches of third-party software.  Its own logic is a handful of
programs that run at boot, during an upgrade, or as daemons, and that talk to each other
through state that outlives them: the registers of the satellite controller (SuC), the
eMMC partitions, the xSPI flash, a GPIO line.  Its largest body of C is the configuration
system of the build (`src/config/`, a kconfig), which every build runs.  This directory
models those programs in TLA+, checks them with TLC on small instances, and proves what
matters most with TLAPS.

Paths below are relative to `src/package/`, those that begin with `config/` to `src/`;
`PROJECT.json` maps every definition to the lines it stands for.

## 1. The system

### Boot chain and SuC handshake
*Programs.*  U-Boot's `suc check_maint` (patch `adding_suc_commands`), run by PREBOOT; the
boot command and the boot script (`boot/nxp/complex_boot.txt`); in the main OS
`suc_init.sh`, `suc_comms`, `boot_maintenance`; in the maintenance kernel `presetup`.

*State.*  SuC registers that survive a reset of the SoC: CTRL (watchdog, request for the
recovery OS), status flags, SoC state, scratchpad (previous state, RECOVERY and RECOVERED
bits), SW_RESET_COUNT.  U-Boot's `maintenance` variable, lost at a reset.  The media:
`boot.scr`, the maintenance file, the main kernel.

*Interaction.*  `check_maint` reads what the last boot left in the scratchpad and decides on
the maintenance kernel; the script overwrites the scratchpad, arms the watchdog and starts
a kernel; `suc_init` turns the watchdog off and records OS_RUNNING; `boot_maintenance`
asks the SuC for the recovery OS and reboots.

*Hard.*  A reset or a failing I2C access between any two register accesses; a watchdog
armed by one program and disarmed by another; bits that survive every reset; a register
count of 8 bits.

*Correct when* a failed start or a request ends in the maintenance kernel and nothing else
does; a running OS is recorded before its start counts as done; the script's maintenance
kernel recovers nothing by itself; the watchdog covers the start and only the start.

### Upgrade and recovery
*Programs.*  `upgrade_soc` (main OS) copies images to partition 2 and writes the
maintenance file; `update_maintenance --auto` (maintenance kernel) installs them, or
recovers partition 3 from `data/rootfs.tgz`, or partition 2 and 3 from USB or a server;
`update_xspi` writes the flash.

*State.*  Partition 2 (`/boot`, `/data`, the maintenance file, staged images), partition 3
(the root file system), the flash, the recovery bits.

*Hard.*  A reset between any two changes of the media; mounts, copies and writes that fail;
a job that must be repeated after a reset, and must not be repeated for ever; programs that
hide the failure of those they call.

*Correct when* the main OS never runs on a half-written root file system or on one older
than its kernel, the archive for the local recovery is kept, the flash is whole, the card
reboots by itself only into what is complete, and comes to rest.

### Versions of the software
*Programs.*  `sdk_version/version_script.sh` names a build; `soc_version`,
`sdk_version_util` and U-Boot's `suc update_version` encode the name in eight bytes; the
scripts `update_version` and `presetup` mount partition 2 and run `soc_version`, which writes
the SuC's registers for its own system and, from a file, for the other one.

*Hard.*  Fields of 8 bits; names with four, five or six fields; writes cut short after any of
eight registers; a directory and files that outlive a reset.

### Kernel arguments, and the tools that share partition 2
`update-cmdline` and `upgrade_soc` mount partition 2 at `/mnt/maint`, each unmounting first
what it finds there; no lock keeps them apart.  The boot script imports `args.txt`.

### power_throttle
Reads the edges of a GPIO line the SuC pulls low to ask for less power, and sets the
frequency governor of every CPU in use; systemd restarts it.  *Hard:* edges that arrive
while it is busy, a bounded queue, accesses that fail half-way, restarts that forget.

### thermalload
A TCP server with a thread for each connection: it starts and kills `stress-ng` and reads the
SuC's sensors through a cursor in the SuC into a table.  Cursor, table, `max_sensors` and
the load are shared without a lock.

### Configuration
*Programs.*  `conf` (oldconfig and its relatives, line by line; also what silently updates the
configuration at each build) and `mconf` (menuconfig), over one core: the parser's calls into
`menu.c`, the conditions of `expr.c`, the values of `symbol.c`, the files of `confdata.c`.

*State.*  The tree of menus, made anew in each run; of each symbol a value, a visibility and
flags, computed when asked for and cached; `.config` and its backup, `auto.conf`,
`autoconf.h` and a header for every symbol, which outlive runs and are read by make.

*Hard.*  Conditions are rewritten and joined, over three values, before anything is computed
from them; caches; the choice, in which one value excludes the others; files written by hand
or with other menu files; a program killed between two files; a loop of questions each
answer of which may bring up new ones.

*Correct when* the menus show what the menu files say, a choice has one value, no question is
left out and the questions end, a saved file is read back as it is, the user's file is never
lost, and what the tree is built with is what `.config` says.

### Diagnostics
`diagnostics/diag.c` tests the devices of the card as its options tell it.  The test of the 1G
port shares a socket and a result with a thread that receives what it sends.  *Hard:*
receivers and descriptors that outlive the test that left them, packets of others, 16 bits of
iterations of which 0 means for ever.  *Correct when* a verdict can be believed and the
command ends.

### Clock kept over resets
`datetime_update` restores the clock at boot from the newer of two time stamps, one of the root
file system's build and one in the data directory, and touches the latter every minute.  The
two services run side by side (`After=` waits for a start, not for an end), and NTP beside them.
*Correct when* the clock of a boot is not behind the one before, and the stamp keeps up.

### The rest
Partition table of the SuC's EEPROM (U-Boot patch), EEPROM reports, maintenance scripts of
older boards, writers of single media, the graphical configuration programs, preparation of disks, further U-Boot
patches, firmware/kernel/buildroot patches, the build system, thermal tests: see section 6.

## 2. Modules

| Module | Models | Composes |
|---|---|---|
| `SocBoot` | the boot chain, one SuC access or hand-over per step | |
| `SocBoot_proofs` | its theorems | `SocBoot` |
| `Media` | the media and what programs leave on them | |
| `UpgradeSoc` | `upgrade_soc` | `Media` |
| `UpdateMaintenance` | `update_maintenance --auto`, `--image-path` | `Media` |
| `UpgradePromise` | abstract: what an upgrade promises of the card | |
| `UpgradeCycle` | resets, the boot in between, both programs, shown to implement `UpgradePromise` | `UpgradeSoc`, `UpdateMaintenance`, `UpgradePromise` |
| `UpgradeCycle_proofs` | its theorems | `UpgradeCycle` |
| `VersionEncoding` | a version from git to eight bytes | |
| `SocVersion` | versions in registers and files, over boots and upgrades | |
| `SocVersion_proofs` | its theorems, and those of the machines of `MCSoftware` together | `MCSoftware`, `MaintTools_proofs` |
| `MaintTools` | `update-cmdline` and `upgrade_soc` at one mount point | |
| `MaintTools_proofs` | its theorems | `MaintTools` |
| `Throttling` | abstract: what `power_throttle` promises | |
| `PowerThrottle` | `power_throttle`, shown to implement `Throttling` | `Throttling` |
| `PowerThrottle_proofs` | its theorems, and those of both services together | `MCServices`, `DateTime_proofs` |
| `ThermalServer` | `thermalload` | |
| `ThermalServer_proofs` | its theorems | `ThermalServer` |
| `KconfigExpr` | the conditions and their rewriting (`expr.c`) | |
| `KconfigMenu` | the tree of menus (`menu.c`, the actions of `zconf.y`) | `KconfigExpr` |
| `KconfigSymbol` | the values of the symbols (`symbol.c`) | `KconfigMenu` |
| `KconfigFiles` | what `confdata.c` reads and writes | `KconfigSymbol` |
| `KconfigSession` | the files on the disk, and how they are replaced | `KconfigFiles` |
| `KconfigConf`, `KconfigMconf` | `conf` and `mconf` | `KconfigSession` |
| `Kconfig` | many runs of both, kills, an upgrade of the menu files; the properties | `KconfigConf`, `KconfigMconf` |
| `Diagnostics` | `diag.c` | |
| `Diagnostics_proofs` | its theorems | `Diagnostics` |
| `DateTime` | both services of `datetime_update` | |
| `DateTime_proofs` | its theorem | `DateTime` |
| `MC*` | the instances TLC checks | each its module; `MCSoftware` puts `SocVersion`, `VersionEncoding` and `MaintTools` side by side, `MCServices` `PowerThrottle` and `DateTime` |

A definition named "Mutant" is a wrong variant of the definition that follows it.  No
specification uses it; it documents which slip the properties would notice.

### SocBoot
`pc` is the running program and its next step; `cm_*` is `check_maint`, `sc_*` the script,
`si_*` `suc_init`, `mk_*` `presetup`.  `ctrl`, `flags`, `socState`, `scratch`, `swCount` are
the SuC's registers; `env` and `needs` are lost at a reset.  `boot` and `crashes` are
history: what happened in this boot and which phase of the boot before the reset hit.
Every action is one access; where the code ignores the result of an access the action has a
failing alternative (`SucFails`) that goes on, where it returns early `CmAborts` leaves.
`ResetSoC` is every reset, `WatchdogFires` the one that sets the flag.

Assumed of the SuC, which is not in the repository: its registers survive a reset of the SoC
and not a loss of power; a request for the recovery OS (CTRL = 2) is reported in the flags
after the next reset; the watchdog flag tells of the last reset only.  Whether CTRL itself
is kept or cleared by a reset is left open: both happen in the model.  The boot targets are
reduced to "one of them holds `boot.scr`, or none does".

### Media, UpgradeSoc, UpdateMaintenance, UpgradeCycle, UpgradePromise
An action is one change of the media, or a decision that reads them.  An archive is `none`,
`bad`, `old` or `new`; an image is `whole` or lacks something.  `boot_mmc1.tgz` is packed as
`boot data maintenance`, so that unpacking it brings `/boot` first (`BtBoot`), then `/data`
(`BtData`) and the installer's maintenance file last (`BtMfile`): that file acts as a
journal.  A partition is `broken` while something is being written to it.

The flash is two parts, as `update_xspi` writes them one after the other: U-Boot (`XspiFw`) and
the maintenance kernel (`XspiErase`, `XspiWrite`), each erased before its `dd`.  A card without a
U-Boot, or at U-Boot's prompt for want of any kernel, is `dead` until the flash is written from
outside (`Reprogram`).

`UpgradeCycle` adds the boot between two programs in the terms of `SocBoot` (the script
clears the recovery bits, a maintenance file or a missing kernel leads to the maintenance
kernel, and, where the flash has none, to one from a USB stick, on to the main kernel, or to the
prompt), a reset at any step, and the loss of what a reset loses.  `mishaps` is history:
what was cut short, and has not been made good by a complete update.  What the checks
establish about the code, and what the exceptions in the properties name:

- An upgrade from partition 2 is repeated until it is complete, because the maintenance
  file is put aside last.  A local recovery has no such journal: cut short, it leaves a
  half-unpacked partition 3 that the script then boots (`"recovery"`).
- When partition 3 does not mount, the job is skipped and still ended (`"mount"`).
- When `tar` fails on partition 3, full or with a bad block, the archive is removed and the job
  ended all the same: the next boot starts the main OS on what has been unpacked (`"unpack"`).
- With U-Boot whole and the maintenance kernel cut short, the boot script goes on to the main
  kernel although the maintenance file is there, over whatever partition 3 holds
  (`"passed over"`).  `FlashKept` ties it to a write of the flash that was cut short or failed.
- `cp` of a new image over one an older job names is not atomic (`"staging"`).
- A remote recovery erases partition 2 before it looks at the image (`"partition2"`,
  `"image"`).
- `update_xspi` always exits with 0 (`UpdatedMeansWritten`, below).
- The image for a whole card is moved into memory before it is checked: a reset then loses it, the
  next boot finds nothing of the name and ends the job.

`UpgradePromise` says what is left of all this for the owner of a card.  Its state is which
system would start, the root file system and the flash by version, and what is `owed`: the
parts the pending job names.  A running OS may `Ask` for anything; after that what is owed is
taken off only when it has been written (`Carried`), or with the `/boot` it lay beside; the main
OS starts only when nothing is owed and the root file system `Fits` its kernel; partition 3 is
written only for a job that names it, or when there is none; and a part is excused (`risks`)
only by a mishap, until it has been written whole.  The job for a whole image is outside
the promise, for the reason in the last item above.

### VersionEncoding
`describe` ranges over what git may say of a commit: no tag, a lightweight or an annotated
tag, with or without commits since, clean or dirty.  A character is its distance from `'0'`,
so that `strtouint8` is the sum the code computes, in 8 bits.  `EncodeField` is one turn of
the loop in `soc_version` and `sdk_version_util`, `EncodeUBootField` of the one in U-Boot.
The sum is a recursive function over the characters (`Value`), so that it can be reasoned about.
A sixth field is stored past the array; the model notes it in `outside`, and nothing else
is assumed of it.

### SocVersion
`reg` holds, for each of four slots, the version each register was written with, so that a
torn write shows as bytes of two versions.  `file` holds the two version files on partition
2, `dir` the directory `/mnt/p2`, which on the main OS survives a reset.  The boot is reduced
to which system runs; an upgrade replaces versions (and, for a whole card, partition 2).
`torn`, `cut` and `failed` are history.

Two behaviours are visible as exceptions: after a reset within `update_version` the directory
`/mnt/p2` is left on the root file system, and the script does nothing from then on until the
root file system is written anew (`cut` in `OwnTold`); and when `umount` fails, `rm -rf` erases
partition 2, `/boot` included (`failed` in `PartitionKept`).  The file of the other system
may have been left empty by a reset; reading it is no error, and the registers of that system
then tell this one's version, of one piece but wrong (`PeerTold` allows it).

### MaintTools
`mounted` is the one mount; a second mount of the same partition in the same place is refused,
and `umount` fails while a file is open there (`Busy`).  Two calls of `update-cmdline` and one
of `upgrade_soc` (one at a time) interleave.  `pulled` and `disturbed` are history.  Where
`upgrade_soc` finds the partition unmounted it writes to the directory of the root file
system: the copy of a root file system fails there, that of an image for the card does not,
and if the partition is mounted again before `save_config` its job is saved without the
image (`pulled` in `StagedThere`).  Arguments of more than 2048 characters are reported as
too long and written all the same; the model does not tell them from others.

### Throttling, PowerThrottle
`queue` is the kernel's queue of edges, which drops the newest one when it is full.
`power_throttle` reads one edge, reads the sensors if the line went low, and sets the CPUs
one by one.  It ends on any failing access to the SuC and is restarted; the restart takes
the line for high and the governors for ondemand without looking.  `missed` says that the
line differs from what the edges tell, `stale` that governors are not what the program
believes.  `Throttling` is the promise: one request at a time, carried out on every CPU
before the next; after a failure nothing is promised until the next request.  Auxiliary
power, which decides how many CPUs are in use, does not change while the program runs.

### ThermalServer
`pc[t]` is the step of each thread, one access to shared state each.  The SuC's cursor moves
to the next sensor at each read and stays behind the last one.  `overlapped` says that a
reading was not alone, `overtaken` that a load was started after this thread's `pidof` (or
that a command failed), `asked` that the connection once asked for an unsupported load,
which leaves `load_response` at FAILURE for good.  A client sends one whole request and waits
for its answer.  A reply copied from a table that has grown since its allocation overruns
the heap; the model lets the copy be cut or the server end.  SIGPIPE, a failing `accept` and
the like end the server (`ServerEnds`).

Assumed of the table is only that it takes the sensors of a card once (`ThermalServerAssumption`).
`thermal_server.c:124` stores without looking at its length, each reading rewinds the cursor of the
others, and nothing bounds the readings, so that the table can be left; the count has eight bits
and wraps.  A store past the table may hit `max_sensors`, declared behind it, or something no
property is about, or end the server (`SdStore`).  `RewindsBoundStores` says what it takes:
`rewinds[t]` is how often others have started during the reading of `t`, and it stores all
sensors at most once more for each.  So a reading alone stays inside, and with 100 entries and,
say, 25 sensors it takes four others to carry one outside.

### Kconfig
The layers follow the source.  `KconfigExpr` to `KconfigFiles` are pure: an expression is a
record, the tree of menus `T` is computed once from the statements of the menu files
(`Parsed`, which ends with `Finalize`), and the fields of all symbols are a record `s`; each C
function that changes symbols is an operator from the `s` it finds to the `s` it leaves, caches
and flags included.  So `Calc` is `sym_calc_value` with its early return for a symbol that is
`SYMBOL_VALID`, and calling it in another order can matter as it can in the code.  Recursion
over the tree of menus and between symbols is what the code does; these modules are not meant
for proofs.

`KconfigSession` has the files, a sequence of lines each, and one action for each file that a
save replaces.  `stack` is the call stack of the running program: a frame is a function and
the menu it is at.  One step of `conf` goes from one question to the next, one step of `mconf`
is a key; between any two of them, and between any two files of a save, the program may be
killed.  Strings are short texts in a small set; the escapes of a quoted text cancel out and
are left out; the order of `symbol_hash` is a constant, and one order is checked.

What the checks establish about the code, and what exceptions in the properties name:

- `expr_eliminate_dups2` takes `(FOO || BAR) && (!FOO && !BAR)` for n, which is wrong for a
  tristate at m (`kconfig_tristate`).
- `conf_read` drops a number that is out of its range after other symbols have been computed
  from it, and leaves those valid: until something else clears them they show what followed
  from the dropped value (`s.dropped` in `VisibilityAsWritten` and `SavedIsStable`).
- `mconf` ends with `conf_write_autoconf` whatever the user answered: edits of which it has just
  said "Your configuration changes were NOT saved." (`config/mconf.c:926`) go into `auto.conf`,
  and the tree is built with them.  `BuiltAsSaved` is therefore stated of `conf` alone.
- a line of a text symbol that the menu files do not know any more is forgotten without its
  header being touched (`quoted` in `TouchedCovers`).

### Diagnostics
`pc` is the step of main, `thread` the receiver of each 1G test, `queue` the packets of each open
socket.  A test of one device is one step; the 1G test is four (`EthOpen` to `EthJoin`), and a
receiver takes one packet per step.  A packet is the test's own, another broadcast, or another;
every packet reaches every socket of the program, and the frame that goes out reaches every
other one.  A receiver that starts late reads the number of its socket from a stack frame that
may be gone: any open socket or none.  An element of `opts` is an option with the words that follow
it.  main looks for those words after the first occurrence of the option in `argv`, and
`getopt_long` (of glibc, which the buildroot configuration chooses) has by then moved the options
in front of all words: so the second of two equal options reads no words, or those of the
options before (`ArgsOf`); `--uart iter 0 --ddr --ddr` tests the memory for ever.  `board` says which devices work, which the program
cannot know; `wire`, `unsent`, `popens` and `foreign` are history, and name the exceptions:

- PASS of the 1G port stays for all later tests (`eth1g_result` is never reset), and a test
  whose frame could not be sent leaves a receiver that takes the next one's frame on its way
  out for one that came back (`unsent` in `PassHonest`).
- FAIL of the 1G port may be due to any broadcast of others, or to 100 packets (`foreign`).
- Each memory test leaves a pipe open, and in the end there are no descriptors (`popens`).
- PASS of a memory test says nothing: it is the exit status of a new shell.

### DateTime
`start` and `update` are the steps of the two services, `rfs`, `mmc` and `temp` the stamps.  A clock
that was not set starts at 0 and stays below `Oldest`, as the epoch does below any build.  NTP may
set the clock whenever it is behind; a reset hits between any two steps and keeps the stamps; an
upgrade brings a root file system of any build so far, with the data directory in it or not.
`best` and `raced` are history.  Two behaviours show as exceptions:

- `datetime_start` that has found the clock not synchronised sets it from a stamp even if NTP
  has set it meanwhile, and `datetime_update` may have stamped the right time (`raced`).
- Where NTP is always first, no stamp is ever made: `datetime_update` touches only one that is
  there, and `datetime_start` makes it only when it sets the clock (`mmc # Missing` in `Shown`).

## 3. Runs

| Run | Bounds | Shows |
|---|---|---|
| `boot` | `suc check_maint 0 0` as PREBOOT runs it, registers modulo 8, 2 failing accesses, sensor bits on or off, images that may not load | `EscalationHonoured`, `NoSpuriousMaintenance`, `AutoRecoveryDisabled`, `WatchdogCoversStart` |
| `boot_live` | `suc check_maint 1 0`, registers modulo 8, no failing access, fair | `CrashLimit`; `HungStartRescued`, `BootSettles` |
| `boot_maint_unwatched` | registers modulo 256, no failing access | **violation** of `MaintenanceUnwatched` |
| `upgrade` | 2 stagings and 2 resets, three of them together, 1 failure of a mount, an access or a write, fair | `RootfsFits`, `RecoveryArchiveKept`, `RebootsComplete`, `CardKeepsPromise`; `ComesToRest`, `JobEnds` |
| `upgrade_updated` | no staging, no reset, 1 failure | **violation** of `UpdatedMeansWritten` |
| `software` | encoding: numbers 0, 7, 42, 255, 256, 999, 1000, and 1, 14, 300, 1024 commits since the tag; versions: 2 registers for 8, 2 versions, 2 failures, any number of resets and upgrades; tools: 2 `update-cmdline`, 1 `upgrade_soc`, failures as before, any number of calls and resets | `NumbersTold`; `OwnTold`, `PeerTold`, `PartitionKept`; `StagedThere`, `ArgsWhole` |
| `version_dirty` | numbers 1, 2; 14 commits | **violation** of `DirtyTold` |
| `services` | `power_throttle`: 4 CPUs, 3 in use, a queue of 3 edges, 2 failures, fair; clock: times 0 to 6, builds at 2 and 4, any number of resets and upgrades, fair | `GovernorsFollowLine`, `KeepsPromise`, `SettledLineObeyed`; `ClockRestored`, `StampFollows` |
| `thermal` | 2 connections, 2 sensors, a table of 3, a count modulo 5, 3 requests, 1 failure, fair | `ReplyComplete`, `CheckHolds`, `LoadsAnswered`, `RewindsBoundStores`; `RequestsEnd` |
| `kconfig` | the SDK's own menu file, cut down, with two `.config` by hand, a run before and one after an upgrade to a second release; six menus of four symbols, each with a condition that needs another rewriting, and 3 edits; 4 texts; fair | `VisibilityAsWritten`, `ChoiceExclusive`, `EveryNewAsked`, `SavedIsStable`, `ConfigKept`, `BuiltAsSaved`, `TouchedCovers`; `ConfEnds` |
| `kconfig_tristate` | one menu with the condition of `expr.c:582` | **violation** of `VisibilityAsWritten` |
| `diag` | 9 command lines, 3 boards, 4 descriptors, 2 sockets of 2 packets, 2 packets until a receiver gives up, iterations modulo 4, 2 failing calls, fair | `PassHonest`, `FailHonest`; `DiagEnds` |

Why the bounds are enough.  The registers of `SocBoot` matter modulo the scratch states (0 to
4) and the count; 8 lets the count pass its limit, take the three status bits and wrap.  Two
failing accesses let `suc_init` fail, be repeated and fail again.  Two resets let the retry
of an upgrade be cut short as well, two stagings let a job be replaced while an older one is
pending; with all four of them together nothing new happens that three do not show.  Two
registers show a torn version as well as eight do, since each action writes one and may be
the last.  The numbers of `software` are those on either side of 8 bits and of three digits.
A queue of 3 edges is full after an edge of each kind and one more, and one CPU of four stays
out of use.  Two threads suffice for every interleaving of two readings, or of a check with
the start of another's load; a third request lets one thread come back over the other's
leftovers.  Two of the three may rewind the cursor under the first, which then stores up to six
times: past the table of 3, and over the end of a count of 5 values.  `kconfig`'s release has every kind of entry the SDK's menu file has, the second one
adds a value of the choice that depends on a number, and a condition over a comparison; each
edit changes one symbol, and every value of a menu of four symbols is reached in three.  In
`diag` two memory tests use up the descriptors, one packet fills what another left of a queue,
and two tests of the port, with another option between them, are the fewest in which a
receiver can outlive its own.  In `services` a second release is built while the first one runs, and
there is time before, between and after the two for stamps of a boot of each.

`software` and `services` check components that share nothing: their machines run one at a time
(`unit`), so that the states are the sum and not the product of theirs, each with the fairness of
its own specification.

Each specification has a `TypeOK` that says what its variables hold.  Where it is proved
(everywhere but in `Kconfig`) it is a theorem; the runs spend their properties on the rest.

Deadlock is checked except where the system may stop: `thermal` (the server may end, and
requests are bounded) and `version_dirty` (a program that ends).

### Disagreements between the code and what it says
- `MaintenanceUnwatched`: the script arms the watchdog before `booti`; if `booti` returns,
  the fallback starts a maintenance kernel, which never kicks the watchdog, under it
  (`complex_boot.txt:67-118`), and is reset by it.
- `UpdatedMeansWritten`: `update_maintenance:552` prints that the SoC is updated although
  the write of the flash failed, since `update_xspi` ends with an `echo`.
- `DirtyTold`: `version_script.sh:12` names five fields; on a tagged commit there are four,
  and the dirty flag is told as the build by `soc_version` and not at all by U-Boot.
- `VisibilityAsWritten` in `kconfig_tristate`: `config/kconfig-language.txt:180` defines `&&` as the
  minimum, and a prompt whose condition has the minimum m is hidden (`config/expr.c:582`).

Further ones the models contain and no run singles out: SW_RESET_COUNT holds the status flags
after a boot without a watchdog reset (`CmDecide`); two connections may both find no load
and start one each (`overtaken`); those of `SocVersion`, `MaintTools`, `Kconfig`
and `Diagnostics` above.

## 4. Fairness
- `SocBoot`: WF of the programs (a processor that runs executes the next step), WF of the
  watchdog (an armed one that nobody kicks runs out), SF of the five steps that a reset by
  the watchdog could otherwise cut short each time: its period of 180 s
  (`complex_boot.txt:26`) is long against each of them.  Users, hosts and faults owe nothing.
  The two liveness properties are stated for executions in which resets from outside end
  (`ResetsEnd`).
- `UpgradeCycle`: WF of the programs; resets, failures and stagings are bounded by constants.
- `PowerThrottle`: WF of the program, its restart included (`Restart=always`); none of the
  line.
- `ThermalServer`: WF of each thread on its own (the kernel schedules them all); none of the
  clients, and none on the end of a load, which may run for ever.  Requests are finitely
  many: `RequestsEnd` is not claimed for a server that never stops getting new ones.
- `Kconfig`: a `conf` that runs takes its next step, and the user answers its questions.  The
  condition is written `[]<>(prog # "conf") \/ []<><<prog = "conf">>_vars`, which is WF of its
  steps where it always can take one (no run deadlocks).  Nothing is asked of `mconf`, which a
  user may leave open for ever.
- `Diagnostics`: WF of main and of each receiver on its own; none of the network.  That packets
  keep coming in is the antecedent of `DiagEnds`: the receiver has no time limit, and on a
  silent network the code does wait for ever.
- `DateTime`: WF of `datetime_update` as a whole (`Restart=always`, `StartLimitIntervalSec=0`); none of
  NTP, time or `datetime_start`.
- `VersionEncoding`, `SocVersion`, `MaintTools`: no liveness, no fairness.

## 5. Proofs
TLAPS checks these for every value of the constants that the named assumptions allow
(`BootAssumption`, `MediaAssumption`, `StagingAssumption`, `CycleAssumption`,
`PowerThrottleAssumption`, `ThermalServerAssumption`, `SocVersionAssumption`, `EncodingAssumption`,
`ToolsAssumption`, `DiagAssumption`, `DateTimeAssumption`), which ask for no more than types, a register large enough
for the states of the SoC, no more CPUs in use than there are, a table that takes the sensors once, and
that "blank", a missing file and an empty one are not versions.

`SocBoot_proofs`.  `TypeCorrect`: the registers stay bytes, the count included.  The safety
theorems rest on `BootInvariant`, three conjuncts that are inductive given the types, since
none of the properties is by itself:
- `DecisionKept` follows a decision from `check_maint` over the environment to the script:
  a failed start or a request is still known at each step, until a maintenance image fails
  to load.  It implies `EscalationHonoured`.
- `ScratchKept` says what the scratchpad holds at each step, so that `check_maint` of the next
  boot sees where the reset hit.  It implies `RunningIsRecorded` and, since the script
  clears both bits, `AutoRecoveryDisabled`.
- `WatchdogKept` adds to `WatchdogCoversStart` that the fallback is reached only after the
  main kernel could not be started.

Each of `DecisionStep`, `ScratchStep`, `WatchdogStep` goes through the actions of `Next`.
`NoSpurious` (`NoSpuriousMaintenance`) has an invariant of its own, `ReasonKept`, inductive
given the others: each way that leads to the maintenance kernel carries its reason from
`check_maint` on, and a reset of a running OS is one only where `Counter` is in use, since the
scratchpad tells it from a failed start (`ScratchKept`).
`CrashesLimited` (`CrashLimit`) compares a register with the history: `SW_RESET_COUNT` starts
from whatever `value` last held, a status byte, and may count a reset that hit no running OS
(`Miscounted`), which takes a failing access to leave the old state in the scratchpad.  So, while
it cannot have wrapped (`Unwrapped`), the count is never below the number of crashes, and above
it by no more than the status byte and one per failing access (`CountKept`); `CrashKept` follows
the order for maintenance from there to the script.  `boot_live` checks it without failing accesses;
the theorem holds with any number of them.

`UpgradeCycle_proofs`.  The maintenance file is a journal: while partition 3 is behind `/boot`
or half written (`Behind`), the next boot must not start the main OS, or find a job that
restores partition 3 from an archive that is there and whole (`Journaled`).  `JournalInv` makes
that inductive.  `Unpacked` and `JobKept` hold whatever goes wrong: how far an unpacking has
brought partition 2, and that the job in memory is the one of the file.  `ArchivesKept` and
`JournalKept` hold while no mishap puts partition 3 at risk, and the end of a complete image
(`BtFinish`), which makes all mishaps good, establishes them anew.  `RootfsDoesFit`
follows.  `RecoveryKept` (the archive of local recovery goes only with the
`/boot` that would start the main OS) gives `RecoveryHasArchive`; `RebootKept`, `DirKept` and
`FlashKept` (who asks for a reboot has a system to start, and no job left; a part of the flash is
broken only between its erasing and its `dd`, or by a mishap) give
`RebootsAreComplete`.  `CardPromiseKept` is the refinement of `UpgradePromise`.  It needs `PromiseInv`
besides: `FlashOwed` (where a job for the flash is, and that its image goes only once it is written
or a mishap recorded) and, while no mishap puts partition 3 at risk, `RootfsOwed` (the same for the
archive of partition 3).  Each lemma `As...` turns a kind of change of the media into an action of
`UpgradePromise`: saving or withdrawing a job is an `Ask`, `UmFinish` and `BtFinish` an `End`, the
erasing of partition 2 a `Replace` and then an `End`, `BtMfile` a `Journal`, a reset of the main OS a
`Stop`; what changes none of the media in the mapping is a `Mishap`, or a stutter.

`PowerThrottle_proofs`.  `ThrottleInv` = types, bounds of the loop (`LoopInv`), what the edges
still unread tell of the line (`EdgesTell`: the last of them is the line's level), and how far
the governors have followed (`GovernorsKept`).  From it: `FollowsLine`, and `PromiseKept`, the
refinement: under the mapping of `Promise`, `Start` is a `Lose` when governors of an earlier
run are left over and otherwise a `Request`; `Decide` is a `Request` when the state changes; a
turn of `Apply` is a `Set`, or a `Stray` on a governor left over, or a `Lose` if the write fails;
everything else a stutter.

`ThermalServer_proofs`.  `SensorInv` says that overlapping readings are known as such, and for
one that is alone how far it has come: cursor, count, and the entries listed so far.  It
gives `RepliesComplete`.  `LoadInv` follows `load_response` and the loads; it gives
`ChecksHold` and `LoadsTold`.  `RewindInv` bounds how far a reading gets: what it has stored and what
the cursor still shows it (`ToShow`) is no more than all sensors once, and once for each rewind by
another since it began (`Shown`).  A rewind adds one round to both sides, so the invariant survives
it, with stores past the table and a count that wraps; `StoresAreBounded` follows, and
`TableLeftByRewinds`, which says the same of the table.  No bound on the requests is assumed.

`SocVersion_proofs`.  `OwnTold` speaks of the end of a boot only, so `VersionInv` follows a boot
from its first register on: `WritesInOrder` (the registers below the next one already hold the
new version, and a slot is torn while it is written), `WhoRuns` and `DirLeft` (who runs, and
that the directory stays behind only where a reset cut the script short), and what is known at
each step of a boot in which nothing failed: `UBootTold`, `MountKept`, `OwnSaved`, `PeerRead`.
The last write of a version then leaves it whole (`LastWrite`), which gives `OwnVersionTold` and
`PeerVersionTold`; `PartitionStays` needs `MountKept`, since only a mount that is still there
lets `rm -rf` reach partition 2.

The same module proves `NumbersAreTold` for every number a tag may hold.  A field has at most three
characters or is told as 0, so the recursive function of `Value` is unfolded three times
(`ValueIs`: the unfolded function satisfies its defining equation, and any that does is equal to it)
and no induction is needed; `DecimalTold` then says that a number comes out as `Told`.
`BuildFields`, `SdkFields` and `UBootFields` say what the fields of a name are, and `EncodingInv`
that the encoder has read a first part of them (`LeftOver`), that its place follows from how many
(`Placed`), and that so many of the bytes are right (`Stored`); `StoreField` adds one.

`MaintTools_proofs`.  `ToolsInv` adds to the properties `Unreported` (`upgrade_soc` reports an image
only after its copy, and comes to the copy unmounted only if another tool pulled the partition)
and `OneWriter` (of two `update-cmdline` that have `args.txt` open one counts as disturbed).

`Diagnostics_proofs`.  `PassIsHonest` is about one verdict, but the receiver that brings a false one
may have been left by any test before.  `DiagInv` has three parts for it: `Cleared` (a verdict
is told in one place only), `OwnSocket` (while every test has sent its frame, no socket but the
current test's is open, so that the frame on its way out reaches no receiver), and from it
`NoFrame` (before a frame has come back there is none in any queue nor in any buffer, so that
no receiver can have passed the test).

`FailIsHonest` has a part for each way to a false FAIL (`FailInv`).  `DescriptorsKept`: every open
descriptor is the pipe of a memory test, the socket of a 1G test that left early, or that of
the test going on.  `Waiting`: as long as nothing failed and no broadcast came, the receiver of the test
going on waits on its own socket, and the packets it has looked at, together with those queued
before the first frame of a test (`FramedAfter`), are no more than have come in from others; so
it cannot reach `Timeout` before they do, although receivers of earlier tests may take packets
from the same queue.  `TypeCorrect` is proved with them, since its bounds on timeouts and
descriptors need them.

`DateTime_proofs`.  `ClockInv` says that the clock of a boot never goes back unless NTP raced: below
`Oldest` until it is set and above from then on (`Late`), so that an update that is between its
comparison and its touch cannot lower the stamp (`Stamping`), and that what `datetime_start` has
chosen is still the newest stamp when it sets the clock (`InOrder`).  With `StampKept`, that neither
service takes the stamp back, `ClockIsRestored` follows.

`services` and `software` check machines side by side.  `ServicesAreBoth` (in `PowerThrottle_proofs`)
and `SoftwareIsBoth` (in `SocVersion_proofs`) show that such a behaviour is one of each machine
alone, through the instance of its proof module; so `ClockRestored`, `StagedThere` and `ArgsWhole`,
which the runs check, are theorems of `ServicesSpec` and `SoftwareSpec` too.

Only model-checked: all liveness (`HungStartRescued`, `BootSettles`, `ComesToRest`, `JobEnds`,
`SettledLineObeyed`, `RequestsEnd`, `ConfEnds`, `DiagEnds`,
`StampFollows`), since TLAPS does not reason about
fairness and ENABLED here; and everything about the
configuration, whose expressions and trees are recursive.

## 6. Not modelled
- **Upgrade**: the menu-driven `do_usb_upgrade`, `--update-rootfs`, `--format-mmc`, of
  `upgrade_soc` `--update-dtb` and `--update-u-boot-script`; `clear_eeprom`; the settings in the jffs2
  partition of the flash (their copy, and `update_xspi_jffs2`, the last of the three of `update_xspi`).
- **Configuration**: the graphical programs `qconf.cc` and `gconf.c` (toolkits drive them; the
  core they call is modelled), `lxdialog` (it draws) and the lexer; the bison parser itself,
  whose actions are `Statement`.  Of `conf`: the environment variables `KCONFIG_ALLCONFIG` and
  `KCONFIG_NOSILENTUPDATE`, and where `-d` looks for its file; of the files:
  `KCONFIG_OVERWRITECONFIG` and `option env`; of `mconf`: `MENUCONFIG_MODE=single_menu`, the search box and the help.
- **Diagnostics**: the text of the options of `stressapptest`, and what the test of the I2C bus
  leaves in the scratchpad of the SuC (it writes register 9, which `check_maint` reads at the
  next boot: the test is for a bench, and `SocBoot` has no such writer).
- **EEPROM partition table**: the command writes constants, the same each time; the checksums in
  the header tell a reader of a write cut short, and the reader is not in the repository.
- **EEPROM reports** read and print.  **Maintenance scripts of older boards** are not started
  on this board.  **Writers of single media** are one `dd` each, run by hand or by a
  script of the older boards.
  **Preparation of disks** is done once by hand.  **Other U-Boot, firmware, kernel and
  buildroot patches** change third-party code that is not in the repository.  **Build system**:
  makefiles; what they pack is in `Media`.
- Writes to the eMMC reach it in order and at once: caches of the file system, and what a
  loss of power does to them, are not modelled.

## 7. Plan
Done, in this order: the boot chain, the upgrade cycle, `power_throttle`, `thermalload`, the
versions, the tools on partition 2, the configuration, the diagnostics, the clock.  What is left:

1. The rest of `upgrade_soc` and `update_maintenance`: the device tree and script updates,
   USB upgrades, formatting; `clear_eeprom`.
2. Composition of `SocBoot`'s decision with `UpgradeCycle`: which boots reach
   `update_maintenance` is there given by the media alone.
