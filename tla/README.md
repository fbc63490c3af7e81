# A verification project for VitaTools

VitaTools is a collection of small programs for the PS Vita: kernel plugins
that hook the operating system, user plugins and applications, and one PC tool.
They share no code worth speaking of; what they have in common is that each of
them hooks into, or drives, a component that was not written for it, from
threads it does not own, with failure paths that are rarely taken.

This directory holds TLA+ models of those programs, TLC configurations that
check them on small instances, and TLAPS proofs of their safety properties for
every value of the constants.

## 1. Inventory

### recoVery (`src/recoVery`)

A recovery menu that runs before the system is up and shares the console's
storages over USB.

* **The eMMC gate** (`patch/kernel.c`). State: `g_allow_bread`,
  `g_allow_bwrite`. The hooks `sdif_read_sector_mmc_patched` and
  `sdif_write_sector_mmc_patched` run on every thread that touches the eMMC;
  a read of sector 0 is diverted to sector 1 unless reading was asked for, and
  writes that start in a guarded range are refused unless writing was asked
  for. Hard: the flags are tested without a lock, a transfer has a length, a
  diverted read consists of two transfers. Right when: the MBR is not
  delivered, everything else is delivered exactly, boot sectors are not
  written behind a closed gate.
* **The raw copier** (`menu/main.c`, `work_emmc`). State: the 16 MB buffer
  `fsp_buf`, the position in the partition, the file. Flashes a partition from
  a file, or dumps it to one, without looking at the result of a transfer.
  Right when: only the requested partition changes, never the boot area; the
  contents are the image's; everything is gone through.
* **The menu and the share** (`menu/main.c`, `lookdog`, `do_work`,
  `handle_ccmd`, `custom_vstor_gpx`). State: the globals `mpath`,
  `custom_mpath`, `g_rwl`, the gate, `select`; in the driver, the image, the
  session, the permission of its thread. The menu thread changes the globals
  and stops and starts the share; the driver's thread calls
  `custom_vstor_gpx` when a host turns up, which reads them. Hard: two threads
  on plain globals, a pointer that may point to a buffer being refilled, early
  returns with the share stopped. Right when: the session serves what the
  screen shows, nothing is stopped unsynced, boot sectors are written under the
  grant only, the share always comes back, the copier and the host never have
  the storage at the same time.
* Signature patches of the boot loader and installation of the hooks
  (`patch/kernel.c`), drawing (`blit.c`, `font.c`), `tai_compat.c`.

### vita-bootanim (`src/vita-bootanim`)

* **The player** (`kernel/main.c`). State: three memory blocks, the header, two
  framebuffers, the current frame and offset, `emergexit`. `module_start`
  loads a file and starts a thread which unpacks frames until they are over,
  the shell is up or `module_stop` runs. Hard: three ends that race, header
  flags that exclude each other, offsets computed from the file, failures with
  one, two or three blocks held. Right when: it draws the frames in order and
  only where there is memory, has the display turn to whole pictures only when
  there are two framebuffers, ends with the logo on the screen, gives everything
  back.
* **The maker** (`pc/mkanim.c`) runs converters through `system` and packs
  their output into that file. Hard: leftovers of an interrupted run, failing
  tools.
* **The settings plugin** (`user/user.c`) edits the header of the installed
  file through hooked registry calls. Hard: a cached header, hooks installed
  and released in two places.
  Right when: what the menu shows is what the file has, and the header in the
  file belongs to the streams behind it.
* **The installer** (`installer/main.c`) renames and rewrites two
  configuration files, copies the modules and an animation. Hard: a reset, a
  full card or a failing call between two steps, and a second session on what
  the first one left. Right when: the user's lines survive, and "done" means
  installed.

### bgvpk (`src/bgvpk`)

* **The export hook** (`main.c`, `incoming.c`, `promote.c`): when a background
  download has been completed, asks, unpacks and promotes it, or moves it to
  `ux0:download`. Hard: a parameter file written by another program after the
  download was queued, partial failure of a sequence of nine calls, copies of
  the plugin that come and go. Right when: nothing is installed unasked, and
  the result does not contradict what was done.
* **The zip reader** (`Archives.c`): central directory, one current file,
  extraction through two buffers. Hard: sizes and offsets from the file, errors
  in mid-archive. Right when: a sound archive comes out whole, and the result
  tells when one did not.
* **The sample** (`sample_app`) queues downloads through the shell service and
  writes their parameter files.

### The other tools

* **devdumper**: copies whole devices with a sector-by-sector retry (`dev.c`),
  the NVS under an acquire/release pair (`nvs.c`), and runs payloads on the
  security processor (`f00d.c`, `nmprunner.h`). Right when: a dump is the
  device, a part that gives up leaves nothing taken or says so, and the dumper
  ends.
* **pdbridge**: system calls that load and unload one of 21 modules, with a
  table of ids tested and set without a lock.
* **storageFormat**: an application that loads a kernel plugin, which hooks the
  start of processes once to inject a user plugin, which hooks the settings.
  Right when: one process gets the plugin, no hook is placed twice or outlives
  what it hooks.
* **mcfredir**: one hook in the settings. **fakegc**, **sa0tour0**: mount
  points redirected. **extuart0**: a port re-acquired on resume. **vlog**: the
  kernel's print callback drawn on the screen from any core; right when the
  lines stay on the screen.

The hazards each of these is exposed to are listed, at their lines, in
`PROJECT.json` under `hazards`.

## 2. Modules

| module | models | variables correspond to |
|---|---|---|
| `SdifGate` | `patch/kernel.c` 50-89 | `gateR`, `gateW`: the two flags; `call[t]`: thread t's hook call, the step it is at, what it met and what it delivered; `sneaked` (history): sectors written by calls that met the closed gate |
| `WorkEmmc` | `menu/main.c` `work_emmc` | `table`: the MBR's entries; `job`: arguments and the entry found; `copied`, `pos`, `buf`, `disk`, `img`, `out`: position, file position, `fsp_buf`, the eMMC, the image read, the file written; `base`, `stale`, `calls`, `fault`: history |
| `Recovery` | `menu/main.c` menu, share, driver callback | `pc`, `select`, `rw`, `mpath`, `custom`, `grw`, `bread`, `bwrite`, `raw`, `mbrFile`: the menu thread and its globals; `vs`, `imgp`, `drv`, `perm`, `fd`, `live`, `hostop`: the driver; `dirty`, `agreed`, `armed`, `restarted`: history |
| `MediumLock` | abstract: the storage is the host's, the copier's or nobody's | refined by `Recovery` |
| `Rcf` | the layout `pc/mkanim.c` writes and `kernel/main.c` walks | none |
| `BootAnim` | `kernel/main.c` of vita-bootanim | `pc`, `header`, `mem`: `module_start`, the file in memory, the three blocks; `pl`, `used_fb`, `cur_frame`, `cur_off`: the player's thread; `buf`, `show`, `asked`: framebuffers, the one scanned out and the one the display was asked for last; `stop`, `emergexit`, `shell`: the outside; `last`, `refused`, `cut`: history |
| `SlideShow` | abstract: frames in order, again from the first only after the last | refined by `BootAnim` |
| `MkAnim` | `pc/mkanim.c` | `pc`, `frames`, `end_logo`, `cur_frame`, `count`: the tool's arguments and counters; `gif`, `png`, `rgba`, `gz`, `rcf`: the files of the current directory; `run`, `fault`, `spoilt`, `uncat`, `from`: history |
| `SettingsHooks` | the hooks of `user/user.c` (vita-bootanim) and of `uplugin/user.c` (storageFormat), which are alike | `g_hooks`, `modid`: the globals; `plug`, `core`: the plugin and the settings core; `live`: what taiHEN keeps; `cores`: bound |
| `Settings` | `user/user.c` of vita-bootanim, on `SettingsHooks` | `header`: the copy in memory; `anim`: `ur0:tai/boot.rcf`; `fresh`, `unsaved`, `crossed`: history |
| `Installer` | `installer/main.c`, on the files `Settings` works on | `step`, `tasks`, `op`: where `main` is; `conf`, `prevba`, `mods`: the files of `ur0:tai`; `pbf`: the configuration in memory; `unsafe`, `failed`, `faults`, `sessions`: history and bounds |
| `Animation` | composes `MkAnim`, `Installer` and `Settings` over one `boot.rcf` | `taken`: the file on its way from the PC |
| `Zip` | `Archives.c` of bgvpk | `zpc`: the statement; `layout`, `centralpos`: the search for the end record; `cd`, `numfile`, `currentfileok`, `i`: the walk; `cur`, `buf`, `fresh`, `avail_out`: the current file and the two buffers; `fout`, `disk`: what is written; `held`, `err`, `entryerr`; `faults`: history |
| `Unpack` | abstract: entries in their order, each left for good, nothing touched outside of the walk; the result is left open | refined by `Zip` |
| `BgdlQueue` | `sample_app` | `asking`, `turn`: `main`; `bgdl`: the system's downloads; `param`: the parameter files |
| `Export` | `main.c`, `incoming.c`, `promote.c`, `offsets.c`; composes `Zip` and `BgdlQueue` | `module`, `mine`, `place`: the copies of the plugin and their hooks; `step`, `task`, `show`, `target`: `ExportFilePatched`; `dialog`, `promoter`, `unpacked`, `result`, `app`, `data`, `saved`: what it drives and leaves; `answer`: history |
| `DevDump` | devdumper's `main.c` (the devices) and `dev.c` | `mem`, `buf`: the buffer; `dev`, `size`, `copied`, `rest`: the device and the place in it; `i`, `retry_count`: `read_dev_sbs`; `fd`, `out`, `ret`: the file and the result; `failed`, `lost`, `short`: history |
| `NvsDump` | devdumper's `nvs.c` | `sm`, `given`, `do_unload_sm`: the security module; `holder`: who has acquired the NVS; `i`, `sc_pbuf`, `snvs`, `nvs`, `file`: the request, the work buffer and the dump; `bad`: history |
| `F00d` | `f00d.c` and the bookkeeping of `nmprunner.h` | `todo`, `prog`, `fstep`: the parts of `module_start` and the call each is at; `NMPbuid`, `running`: memory and security modules taken; `ram`, `dump`, `fret`: shared memory, files, results |
| `Devdumper` | composes `DevDump`, `NvsDump` and `F00d` in the order of `module_start` | none of its own (`npc`, `ni` are `dump_nvs`'s) |
| `PdBridge` | pdbridge's `main.c` and `test/main.c` | `modids`: the table; `kernel`, `uids`: the kernel's modules; `syscall[t]`: thread t's system call, with the id and the result it holds; `test`: the test program; `crossed`: history |
| `StorageFormat` | storageFormat's `main.c`, kernel and user plugin, `FatFormatProxy.h`; mcfredir's `user.c` | `app`: `main`; `inject`, `starthook`: the kernel plugin; `proc`, `has`: the processes started and those with the user plugin; `storno`, `funcs6`, `g_button`, `mcf`, `vol`: the menu, its handler, mcfredir's hook and the volumes; `crowded`: history |
| `VLog` | vlog's `main.c` | `pos`, `mark`: the row and the mark in the last pixel; `at`, `reg`: each caller's statement and copy; `printed`: bound |
| `Plugins` | runs `SdifGate`, `VLog`, `PdBridge` and `StorageFormat`, each by itself | `part`: which one |

`MC*` modules give constants their values. `*_proofs` modules hold theorems.
Definitions marked "variant" are near copies of a definition with one plausible
mistake; nothing uses them but the mutation list in `PROJECT.json`, which
records that each property fails when its variant takes the definition's place.

Some properties are theorems only and have no run, since a proof for all
instances stands for them: the type invariants,
`MbrHidden`, `BootBlockSafe`, `TargetRequested`, `ImageLands`, `CopiesAll`,
`NoRemainingOps`, `HiddenEntry`, `ShareBack`, `MountedPath`, `ControlsMatch`,
`Released`, `Retried`, `Honest`, `Whole`. The modules that `Plugins` composes,
the gate aside, and `Settings` and `Installer` have theirs in the typed parts of
their inductive invariants.

### How the modules stand to the code

*SdifGate.* A call of a hook is split where other threads can come in: the
test of the flag (`Enter`), each transfer (`DoRead`, `DoMbr`, `DoMbrRest`,
`DoWrite`), the return. Any transfer may fail. A failing half of a diverted
read fails as a whole or leaves the first half.

*WorkEmmc.* The table is read once per call and entries are scanned to the end,
so the last match wins; `Amount` is the copy loop's condition followed by the
test for the remainder. Every transfer may fail, reads of the file may fall
short anywhere, appends as well, and none of it is looked at: `fault` records
only that it happened. Sector numbers are natural numbers: a real device's
sizes are far below 2^31.

*Recovery.* `Command` is a key press of `lookdog`; `SetMode` to `Start` are the
statements of `do_work` and of `SWAP_MPATH` one by one, because the driver's
thread may run between any two of them. `ksceIoSync` is taken to sync the
session whose image has the name given; `vstor_start` to succeed; `vstor_stop`
to wait for the handlers under way, as the comment at main.c:414 says. File
descriptors are never 0. `GpxDie` covers both failing checks after the open.
User commands (`handle_ccmd`) run the raw copier, whose inside is WorkEmmc's.
A host write is told by where it starts and ends (`HostWrites`), since the gate
looks at its first sector only: one that starts in a guarded sector needs the
flag, one that runs over from the gap passes whatever the flag says. Both need a
session that reaches those sectors, which is one of the whole eMMC.
`BootWriteArmed` says of the first kind that it is made under the grant, and of
both that the session is of that storage and writable; that the second kind is
made without a grant is the finding of `sdif_crossing`.

*BootAnim.* The file is a sequence of units (see Rcf), so offsets, the wrap and
a cut file mean in the model what they mean in memory; behind the file there
are zeros. The base of the frame numbers in stored names is the constant
`Base`, 10 in the code: what matters is the number of digits. A frame is drawn
in two steps, so that a display that scans it out meanwhile shows. Any
allocation, any `SetFrameBuf` and any unpacking may fail. `SetFrameBuf` is
called for the next frame, so it changes only what the display was asked for
(`asked`); the display turns to that at a vertical blank (`Vblank`), at any
later moment. The player waits for one before the loop (`PlSync`) and, with two
framebuffers, never again. So the next frame may be drawn into the buffer that
is still scanned out, and nothing here says that the animation does not tear: it
does when frames unpack faster than the display turns. What holds is
`TurnsToWhole`: what the display was asked for last is a whole picture and not
the one being drawn to. With one framebuffer the wait at the head of the loop
only delays the drawing and is left out, as are pixel formats and cache
maintenance.

*MkAnim.* Every external command is a step that works, or fails with the
outcomes such a failure can have; `main` looks at none of the results. A run may
be interrupted between any two commands, and another run on another animation
started over its files. Each file is known by the run its data is of, a gzipped
frame by that and a size. `gzip` asks before it replaces a file, and the answer
may be no. Which tools are there, the resizing and the other options do not
matter to what is stated. The check at the end prints a message and changes
nothing (from three frames on, size words alone are longer than what it looks
for).

*SettingsHooks.* taiHEN keeps every hook until it is released by the id it gave,
and knows an id once; that is all that is assumed of it. The code never resets
an entry of `g_hooks` and tests for `>= 0`, so that entries that were never set
and ids that are gone are released too: `Release` finds nothing then.

*Settings* and *Installer.* A header has two halves, what belongs to the streams
(`layout`) and what the menu sets (`on`); a save writes both over whatever file
is there. Writing a file with `fcp` is an emptying and an append, and the
default animation's append two steps, so that a save of the settings plugin may
come in between. A configuration is a sequence of parts: the plugin's section,
that section cut behind its first line, the user's lines, some of them. Any call
may fail, any write may be cut, the power may go anywhere; a file that could not
be opened is used all the same, which ends the application (`Dies`). `strstr` is
called on a buffer without a terminating zero; a section it could find behind
its end is taken not to be there. `installVBAnimC` returns no value, so that its
caller may go on or leave.

*Animation.* The PC is left alone once its file has been taken along. The
plugin runs beside the installer only where that copies the default animation
and nothing else: in a full installation the two work on the same file in the
same way, and the bound keeps the instance small. taiHEN loads the plugin where
the configuration has its section and the module is whole.

*Zip* and *Export.* Data is counted in units, and the two buffers have a few of
them, so that an entry may fall short of, fill or overrun either. An entry is
what its record, its header, its packed data and its sum are worth: sound or
not. Inflating gives data, an early end or an error. `Export` runs the reader's
steps inside its own; while the reader runs, the steps of the application and of
a loader of plugins are left out, since it touches nothing they see. Every call
of `ExportFilePatched` may fail. A reader that returns an error leaves what it
had written before (`Amount`; "part" down to nothing): an export that reports an
error may have unpacked to `ux0:data`, and `ReturnTrue` says what it has not done
besides. The downloader is external and goes to work as
soon as a download is queued, which is before the parameter file is written.

*DevDump.* `Full` is the condition of the copy loop in 32 bits, `Rest` the test
after it. A failing bulk read or a failing sector read leaves in the buffer what
was there or part of something. Writes may fail or take less than they were
given, which the code takes for success; `short` records it, and `Honest` and
`Whole` speak of dumps without. A `Free` without a wait follows the last device.

*NvsDump.* The three requests about a secure block are one step: only their
outcome matters, and whether any failed does not end the loop. Plain blocks are
read in halves, as in the code. The others acquire and release as they like.
The result of the write is ignored, so it may stop short anywhere (`Written`;
the cut is counted in blocks as they are fetched): `FileTrue` speaks of the
blocks the file has, and a dump that lacks some looks like any other.

*F00d.* Each dump is the sequence of its calls; the module keeps what the calls
reserve, start and leave in shared memory. The programs that run on the security
processor are external: one that was copied whole leaves its results.

*PdBridge.* A system call is split at the test of the table, the kernel's
function and the write to the table. The compiler may read the id a stop passes
on with the test or again after it, so `KernelStop` uses either value. The
kernel never gives an id out again during the model's life, and refuses one
that names no module. An overlap of two loads may start a module whose id is
then overwritten: `TableExact` is therefore stated for indices on which no calls
have overlapped, and `NoStaleEntry` is what holds always.

*StorageFormat.* The start of a process is split where another may come in: the
call of the kernel's function, the loading of the user plugin, the release of
the hook. The two seconds before the kernel plugin is unloaded pass at any
speed. `LoadedOnce` speaks of systems that start one process at a time; two
starts that overlap both get the plugin, and nothing in the code says otherwise.

*VLog.* The callback's statements one by one, with the addition to `pos` a load
and a store. A line long enough to reach the last column overwrites the mark if
it covers row 543, and other programs fill the framebuffer. The compiler may
test the value it has stored or load `pos` once more.

*Plugins.* Its four parts have no state in common; each is chosen at the start
and runs alone, so that the run's states are the sum of theirs and not the
product.

## 3. Runs

| run | question | bounds |
|---|---|---|
| `plugins` | The gate: is the MBR hidden and everything else read exactly, and are guarded sectors reached past a closed gate from the gap only? vlog: does the row come back? pdbridge: what may the unlocked table say of the modules? storageFormat: does one process get the plugin, and are hooks paired? | 2 threads (symmetric), 4 sectors: a boot block of 2, a gap, a guarded one; transfers of 0, 1 and 2 sectors, so that every boundary of the range tests and every length class of the diverted read occurs. 2 cores and 14 lines: past the end of the screen, which is 12 rows, and on. 3 threads, 2 indices, 2 ids: two calls overlap on an index while a third goes on. The dialog and another process, two lives of the settings core, hook 1 and one hook of the core refused |
| `sdif_crossing` | Are all guarded sectors guarded, as the comment says? *No*: see findings | 5 sectors, the last one free |
| `work_emmc` | Does a flash or dump touch and contain what it should, after whatever came before? | 9 sectors, a buffer of 3, partitions of 0, 2, 3 and 4 sectors, so below, at and above a buffer; one partition below the lowest accepted offset; a shorter and a longer image; 2 calls, so that the second meets a stale buffer |
| `recovery` | Do menu and driver agree on path, mode, gate and storage, at any interleaving? | nothing is bounded but the set of custom paths: two, one of which is the whole eMMC under its own name, the other one no menu entry has |
| `recovery_alias` | Is `mpath` the mounted path, as its comment says? *No* | same |
| `recovery_mbr` | Does `dump_mbr` dump the MBR, as its comment says? *No* | same |
| `bootanim` | Does the player draw, loop, swap, end and free as it should for any file, whenever the display turns to what it is asked for? | all 16 sets of the flags swap, sram, logo, loop; 0, 1, 2 and 4 frames of one or two units; a cut and a miscounting file for each set; files with a wrong header. `Base` 2, so that numbers of one and two digits occur |
| `bootanim_long` | Does `-loop` loop until the boot is finished? *No*, see findings | five frames, the fifth with a three-digit number in base 2 |
| `animation` | Is the file the maker makes this run's animation, whole and walkable, whatever failed or was left? Do the user's lines survive the installer, is "done" installed, and what becomes of the header with a settings plugin at work? | 2 runs of the maker, up to 3 frames, packed sizes of 1 and 2 units: leftovers fewer than, as many as and more than the frames of the next run. 2 sessions of the installer, 2 failing calls or losses of power: the second session works on what a failing first one left, and may fail itself. 2 animations, the installer's and the user's; one life of the settings core for each start of the plugin, and no refused hooks, which `plugins` is about |
| `bgvpk` | What is asked, unpacked, installed and reported when downloads with and without parameters are exported? | 2 copies of the plugin (symmetric), 2 downloads, one of them with a parameter file that says not to ask; buffers of 2 and 3 units and files of 0 to 4, so below, at and above each buffer; archives of up to 3 entries that are sound or have a bad record, header, size or sum; search blocks of 5 with marks on the seams and more than one mark |
| `bgvpk_partial` | Does a result of success mean that the archive came out whole, as the header says? *No*, see findings | same |
| `devdumper` | Are dumps whole as far as their writes went, in place and without data of another sector or device, is what a part takes given back or its failure told, and does the dumper end? | 2 devices of 0, 1, 4 or 5 sectors, a buffer of 2, 1 retry: below, at and above a multiple of the buffer; `Word` 8, the least above the sizes. 2 secure and 2 plain blocks, another user of the NVS. All three parts before the devices |

Deadlock is checked where the code never stops (`work_emmc`, `sdif_crossing`).
`recovery` ends in the power-off, `bootanim` with the player's thread, `bgvpk`
when every download has been exported, `devdumper` with the program, `animation`
and `plugins` where their bounds on sessions, faults and lines are used up.

### Fairness

`Recovery`: the menu thread inside a command, and the driver's handlers, which
`vstor_stop` waits for; no fairness on key presses, on the host or on the cable.
`BootAnim`: both threads, the wake-up of the thread that waits in `module_stop`,
and the display's vertical blanks; none on the shell, so that a boot which never ends is a
behaviour. `Devdumper`: its one thread, whose calls return (weak fairness of its
steps), the others, who give the NVS back (weak), and the wait for the NVS, which
asks again and again and so gets it at last (strong fairness of `Acquire`); no
fairness on others' asking. The other specifications state no liveness.

### Findings

* `sdif_crossing`: a write that starts in the unguarded sectors between the
  two guarded regions and is long enough runs into the second one with both
  flags down. `SecondRegionReachedFromGap` (checked and proved) says that this
  is the only way.
* `recovery_alias`: command 5 clears the buffer `mpath` points to before it
  knows whether there is a new path.
* `recovery_mbr`: the gate is closed before every command, so the MBR dump
  reads sector 1. (The patch keeps a copy of the MBR's job in sector 1 for the
  system's own use; the file is still not the sector the comment names.)
* `bootanim_long`: the third attempt to find the end of the stored name tests
  offset 18 again, where 19 is needed for three-digit numbers; the animation
  ends at frame 100, looping or not.
* `bgvpk_partial`: an entry that fails to unpack ends the loop of `ZipExtract`
  with the result of the entry before, so that an archive that came out in part
  is reported as unpacked. `UnpackedWhole` says what holds: without a fault, a
  sound archive comes out whole and is reported as such.

What the runs leave open is in the properties' conditions: a second session of
the installer on a configuration that a first one wrote in part copies it over
nothing (the copy is in the way of the rename), but a session that starts
without a copy on a cut configuration keeps the cut one (`unsafe`); a boot.rcf
that is replaced under a running settings plugin gets the old header with the
next setting (`crossed`). Of these, of two processes that start at once under
storageFormat's hook, and of calls of pdbridge that overlap on an index, the
properties `DoneIsInstalled`, `SettingsTrue`, `LoadedOnce` and `TableExact` say
nothing; `LinesKept` and `NoStaleEntry` go on to hold.

## 4. Proofs

Every invariant and every action property of the passing runs, and the three
refinements of an abstract module, are theorems: for every value of the
constants the named assumptions allow, and for the specification the run
checks. All proofs are checked by tlapm with SMT, Zenon and LS4. There is one
proof module to a component, or to the components that one run composes.

### Assumptions

The proofs assume the named assumptions on the constants, which every run
evaluates, and nothing else. Most say that sizes are numbers. Those that say
more:

* `DevDumpAssumption`: a device's size stays a buffer away from 2^32. Above
  that the sum in the copy loop's condition would wrap and the copy begin again.
* `BootAnimAssumption`: a stored name is that of its place in the file
  (`Numbered`), as the maker numbers its frames. The file may be cut anywhere
  and count more frames than it has, and flags and sizes are arbitrary.
* `ZipAssumption`: the search for the end record looks further back than the
  four bytes of the mark (`MaxBack > 4`; 0xffff in the code).

### Arguments

A property of the runs is seldom inductive. What each proof module adds to it:

* `Plugins_proofs`, in a part for each of the four programs and one for their
  composition.
  - The gate: `CallOK` relates, for every thread, the step a call is at, what it
    met at the gate, and the domain and contents of what has been delivered. It
    is needed because `ReadExact` speaks about finished calls only.
  - vlog: a caller at the test may hold a smaller copy than `pos`. `LogInv` says
    which caller is bound to take `pos` back (`Returns`): one that stored a row
    behind the last one, or has already found it so.
  - pdbridge: a load which has yet to write its id is alone in knowing it
    (`Loads`), and a stop works on an id of its own index or on one already gone
    (`Stops`); these carry `NoStaleEntry`. `TableExact` speaks of the time
    between calls only: `Exact` says for each step of the one call under way
    whether the table still agrees with the kernel, or how it will.
  - The hooks of the settings: an entry holds an id exactly while taiHEN keeps
    the hook (`One`), which makes the second release of an id harmless, and the
    core's hooks are there only while the core is and was seen to come
    (`WithCore`).
  - storageFormat: `LoadedOnce` counts. `Once` says instead that whoever is in
    the kernel's hook or has got the plugin is one process, and that the hook
    goes while that process is still inside.
  - `PartsRefined`: each behaviour of `Plugins` is one of each part's own
    specification; `PluginsSafe` collects what follows for the composition.
* `WorkEmmc_proofs`: the invariant relates the job to the table, the position to
  the amount copied, the disk to its state at the call's start outside the turn
  so far, and, for calls without failures, the buffer and the disk to the image.
  `FlashExact` also fixes what a short image is continued with: `FlashInv` says
  what is at each place of the buffer, the last sector of the image that passed
  through it, or what an earlier call left there (`Held`).
* `Recovery_proofs`: six named parts (types, shape of the control flow, driver,
  grants, paths, syncs), each with a frame step for the actions that leave it
  alone and one step per action that does not. From them follow the run's
  safety invariants, both action properties and that every step of `Recovery`
  is a step or a stutter of `MediumLock`.
* `Devdumper_proofs`, on `DSpec`. The devices in three layers: `PlaceInv`
  relates the turn, its amount and the retries to the place in the device;
  `WholeInv` adds that the file is as long as what was copied, as long as no
  write was short; `HonestInv` adds that the buffer holds this turn's sectors up
  to where `read_dev_sbs` is, and no data behind, without which a given-up
  sector could show an earlier one. The security processor's part: `FTaken` says
  at each call what the part has taken as long as none has returned an error,
  `FCopied` where the program and its results lie. The NVS: `NModule` and
  `NHolds` pair what is taken with what is given back at each step, `NSecure`
  and `NPlain` say which blocks the buffer has. The three are shown of each part
  by itself and then of the steps of the whole.
* `BootAnim_proofs`: seven named parts: the header, the threads, the blocks
  held (`MemInv`), what the display was asked for while two framebuffers are
  drawn to (`FlipInv`), what the SRAM holds (`CamInv`) and the place in the file
  (`FrameInv`: the byte offset is the one a walk over the size words finds the
  counted frame at, and the frame drawn last is the one before, or the last
  one). `FramesDrawnInOrder` is the refinement of `SlideShow`. `BlocksHeld` needs
  that `init_bootanim` lets no header ask for the SRAM and two framebuffers.
* `Animation_proofs`, on the composition. `LinesKept`: a copy, once it is there,
  has the user's lines, and the steps between the read and the write of a
  configuration rely on it (`Moving`, `Making`). `DoneIsInstalled`: each thing to
  be installed is still in the list of tasks or is in place (`DoneInv`).
  `SettingsTrue`: a fresh copy has the file's layout, also while the animation
  is half written (`HeadInv`). `OwnFrames`: of every stage of the maker, which
  streams are already this run's (`OwnStep`). `Walkable`: the size words lead to
  the end of what is written so far (`WalkInv`).
* `Export_proofs`. `HookedOnce` rests on the first of the three injections, which
  there is once only and which a copy holds as long as it holds the export
  (`HookInv`). `InstallConsented` and `ReturnTrue` need that the parameter file
  says at the installation what it said when it was read: it is written once,
  and the download is exported once (`QueueInv`), and what was agreed to, and
  what was unpacked (in part or whole), saved or promoted, goes along from step to step
  (`ConsentInv`, `ReturnInv`). The reader: `ZipInv` says where it is in the
  archive, what has become of each entry and what the buffers hold in number;
  it suffices for `WalkIsUnpack`, the refinement of `Unpack`. `UnpackedWhole`
  needs what they hold in kind: disk, large buffer and freshly copied units are
  the file from its first unit on without a gap, and the rest is still to come
  (`Streams`).

### Recursion

`Start` (the walk over the size words) and the search of `ZipLocateCentralDir`
are recursive functions. That they are the functions their equations describe
is proved: `Rcf_proofs` constructs the first by iteration, with induction stated
over sets in place of predicates (`Induct`), and shows what a file's walk has in
common with that of a longer one; `Export_proofs` shows that the search equals
its closed form (`Far`: the greatest mark within reach), from which
`LocatedLast` follows.

### Model-checked only

Liveness: `CommandReturns`, `EndsWhenTold` and `Ends`. They rest on fairness and
so on which actions are enabled, which the provers cannot reason about. The
properties of the runs that expect a violation are refuted, see the findings.

## 5. Not modelled

* Text consoles, fonts, hashes and data tables.
* Address arithmetic on the running kernel (`tai_compat.c`, most offset tables);
  recoVery's signature patches and the installation of its hooks, which write
  constants into code outside the repository before anything else runs.
* The programs for the security processor: what they change is outside the
  repository, and of the transport only what it reserves, starts and leaves is
  modelled.
* `fakegc`, `sa0tour0`, `extuart0`: sequences of calls at start, by one thread,
  and callbacks without state of their own; their effects are the kernel's and
  the hardware's. A model would be one of the kernel's mount points, of which
  the repository shows too little.
* Registry and layout hooks of the settings plugins, which pass a value through.
* What is read and changes nothing: `diagBridgeGetLoadStatus`, the parts of
  `Archives.c` that look up single files.

## 6. Plan

* Fewer assumptions: `Numbered` for files that no maker wrote, and the copier's
  sector numbers in 32 bits.
* What liveness leans on and can be stated as safety: that no wait of
  `Recovery` and of the player's threads is one on each other, as invariants of
  the proof modules.
* `UnpackedWhole` for archives a part of which is sound, entry by entry.
