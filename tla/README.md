# A TLA+ verification of nerves_initramfs

`nerves_initramfs` is the `/init` of an initramfs, PID 1 of a booting device.
It runs a script, may load and save the U-Boot environment, may run programs
(`fwup` among them), mounts the root filesystem and starts that filesystem's
init.  Nothing restarts it: when it ends, is killed or makes a mistake, the
device does not boot.

This directory holds TLA+ modules translated from the C, bison and flex sources
below `src/`, TLC configurations that check them on small instances, and
proofs, checked by TLAPS, that hold for every value of the constants.
Paths of the sources are written as in `src/script.c:261`; `PROJECT.json` lists for
every definition that models code the lines it models.

1. [Inventory](#1-inventory)
2. [Modules](#2-modules)
3. [Runs and bounds](#3-runs-and-bounds)
4. [Fairness](#4-fairness)
5. [Proofs](#5-proofs)
6. [Findings](#6-findings)
7. [What is not modelled](#7-what-is-not-modelled)
8. [Plan](#8-plan)

## 1. Inventory

### The parts and how they meet

`main()` (`nerves_initramfs.c`) calls everything else and everything happens on
its one thread.  What is concurrent lies outside: the kernel adds and removes
devices, writes dirty pages back, and schedules the programs that init starts; a person
types at the debugging prompt or hangs up; power may go at any moment.

| Component | State it keeps | Operations | Meets |
|---|---|---|---|
| Block device lookup, `block_device.c` | `static int tries`, the caller's path buffer | probe every disk for an MBR or GPT, find by `PARTUUID=`, `DISKUUID=` or path, open with waiting | the kernel, which adds disks meanwhile; its callers are `loadenv()`, `saveenv()`, `fwup_revert()`, `blkid()`, and the final mount, which share the waiting |
| U-Boot environment, `uboot_env.c` | the list `env->vars`, `env_size` | read, set, get, write (which sorts), free | script functions; the page cache of the device |
| External programs, `cmd.c` | the pipe, the child, the caller's buffer | `system_cmd()` | the program and what it leaves in the background; `cmd()`, `fwup_revert()` |
| Script heap, `script.c` | the heap, the list of variables | allocate, assign, collect | the parser, every function of the language, `main()`, which sets and reads variables |
| Script language, `parser.y`, `lexer.l`, `script.c` | bison's stack, flex's buffer | reduce, evaluate, run | the heap; the functions of the language |
| Root disk symlinks, `rootdisk.c` | the list of scanned devices | scan `/sys/block`, link `/dev/rootdisk0*` | the kernel, which adds and removes devices meanwhile |
| Debugging prompt, `linenoise.c`, `repl()` | the edited line, the history, raw mode | edit, recall, enter | the terminal; `eval_string()`, and the programs it runs on the same terminal |
| Boot sequence, `nerves_initramfs.c` | the mount table, the files of the initramfs | `setup_initramfs()`, script, mount, symlinks, `switch_root()`, `execv()` | all of the above |

### What is hard, and what makes each part correct

- **Lookup.**  Disks and partition nodes appear while the directory is scanned,
  between the scan and `open()`, and under names that change from boot to boot.
  One counter limits the waiting of every call of the boot.  *Correct* if all calls
  together wait no longer than the budget, if each call makes at least one
  attempt, if a device that is there is found, and if the device opened is the
  one asked for.
- **U-Boot environment.**  A block is written to a cache, reaches the storage
  later and in any order, and may be torn by a restart; a load reverses the
  list, a save sorts it, lookups stop at the first match.  *Correct* if the list
  is a map, if nothing but what was set differs from the storage, if a save that
  returned survives, and if a load never returns a mixture of two saves.
- **Programs.**  The pipe fills, the output exceeds the buffer or is blank, background
  processes hold the pipe open, `fork()` fails.  *Correct* if init neither
  blocks for ever nor loses output, trims what it keeps, and answers with the
  status of the program it started - `fwup_revert()` reboots on it.
- **Interpreter.**  Variables alias terms; a collection moves them all and frees
  the old heap; statements run while the rest of the input is still unparsed;
  functions return new terms, unevaluated parameters or NULL; negations are evaluated
  while their block is read; an error leaves input to the next call.  *Correct* if a
  script does what it says, whatever aliases and collections there are, if the prompt
  shows the last statement's value, and if no pointer leads to freed memory.
- **Symlinks.**  Every file of sysfs is read by a call of its own while names and
  device numbers are used again.  *Correct* if no link leads to another disk, and
  none is missing.
- **Prompt.**  The row on the screen is written by two routines that must agree; the
  line being edited has a slot in the history, which grows, drops its oldest line and
  skips duplicates; the terminal may hang up at any point, and is in raw mode while a line
  is edited.  *Correct* if the row shows the line, if no line is lost or put in another's
  place, if programs never find the terminal in raw mode, and if the prompt ends when
  its input does, so that the boot goes on.
- **Boot.**  Most steps only warn when they fail and the next steps run
  all the same; `switch_root()` deletes files.  *Correct* if the init that is executed
  is the root filesystem's, if nothing but the old root is deleted, and if the
  real init finds `/dev` with the symlinks and free mount points.

`PROJECT.json` lists 40 such hazards with their source lines and the properties
that speak of them.

## 2. Modules

Each component has a module with its state and one action per operation, an MC
module with the instance TLC checks (where the constants need one), and a module
of proofs.

| Module | Models | Implements |
|---|---|---|
| `DeviceOpen` | the promise of `open_block_device()` to its callers: a right device or none, and one budget of waiting for the whole boot | |
| `BlockDevice` | `block_device.c`, with the kernel | `DeviceOpen` (`KeepsPromise`) |
| `EnvStore` | what `loadenv()`, `setenv()`, `saveenv()` promise: maps, replaced as a whole | |
| `UBootEnv` | `uboot_env.c` and those functions of `script.c`, over a device with a cache | `EnvStore` (`IsStore`) |
| `SystemCmd` | `cmd.c`, `cmd()` and `fwup_revert()`, with the programs | |
| `VarStore` | what the variables promise a script: a map from names to values | |
| `ScriptHeap` | the heap, the variables and the collection of `script.c` | `VarStore` (`KeepsVariables`) |
| `Script` | `parser.y`, the running of terms in `script.c`; EXTENDS `ScriptHeap` | `ScriptHeap` (`HeapSpec`) |
| `ScriptLang` | what bison reduces a statement by, and what a script means, without heap and pointers; EXTENDS `Script` for its values | |
| `RootDisk` | `rootdisk.c`, with the kernel | |
| `LineBook` | what the history of the prompt promises: a list of lines, without the slot | |
| `LineEdit` | `repl()`, and `linenoise.c` as it uses it, with the terminal | `LineBook` (`IsBook`) |
| `Boot` | `nerves_initramfs.c`; the other components are steps of it | |

### BlockDevice

A device is `<<disk, part>>`, which also stands for the UUID it carries; part 0 is
the disk.  `name` and `nodes` are what the kernel shows and change at any time
(`DiskArrives`, `PartArrives`).  A call is `Call`, then turns of `Find` - `OpenOk`
or `OpenFails` - `Sleep`, or `GiveUp`.  `find_block_device_by_spec()` is one
step: `scandir()` takes the list of disks at one moment, disks do not go away,
and what is on them does not change while they are probed; a disk's entry in sysfs
and its device node appear together.  `tries--` closes a turn of the loop in the code,
so the model does it on the way out (`TriesLeft`).  A `pread()` of an empty disk
leaves the stack buffer as it was, which is undefined content; `Find` chooses
for each empty disk whether it kept the sector read before.  `slept` and `there`
are history.

### UBootEnv

`vars` is the list, newest first.  A block is a checksum and a row of cells: a
pair, the NUL that ends the pairs, a filler, or junk without `=`.  The checksum
*is* the row it was computed over, so that CRC-32 is taken as free of
collisions.  `cache` is what a read returns, `disk` what it returns after a
restart; `WriteBack` moves one part at a time, in any order, and `Restart` may
come between any two steps.  `SaveWrite(n)` is a `write()` that took `n` parts;
`Close` waits for the write-back unless somebody else holds the device open,
and `SaveNoRoom` is the return that forgets its `close()` (`leaked`).  A load that fails
leaves the list empty, or with the pairs that a malformed block has in front of its
fault (`LoadInvalid`); such a block is one that was there at first, since those that init
writes parse, or begin with the pair that does not.  To `EnvStore` these are the
`Fragments` of a location, and nothing else may be left by its `LoadNothing`.

### SystemCmd

Init's steps are those of `system_cmd()`, the program's are `Exec`, `Write`,
`CloseAll`, `StartBackground`, `Exit`; a background process (`helper`) writes on, lets go of
the pipe or ends.  Bytes are counted, and those in the caller's buffer are blanks, NULs
or others, which is all `cmd()` tells apart when it trims them (`CmdReturns`).
`TrimText` is the case of `trim_string_in_place()` that works; in `TrimBlanks` its pointer
runs below the buffer, over bytes that are not the program's, and what comes of it is chosen.
`Wait` has the case that `fork()` has returned -1, for which `waitpid(-1)` means any child.

### ScriptHeap, Script, ScriptLang

A pointer names the heap it leads to (`gen`), so that one kept across a collection
is seen to dangle.  `Alloc` counts cells of 8 bytes and ends PID 1 when there
are too few.  `StartGc`, `CopyVariable` (one per variable) and `FreeOldHeap` are
`term_gc_heap()`.

A statement is a tree; `Post` of `ScriptLang` lists it in the order in which bison reduces it.
To `Script` that order is a constant, `Reductions`, of which it assumes that the grammar derives
it (`Grammatical`): each reduction finds on bison's stack the symbols that it takes (`Taken`,
`Fits`), and the last one leaves nothing.  The assumption is what bison guarantees of its parser, and TLC
evaluates it for every statement of the runs.
The actions of the parser take the list from the front: `Shift`, `NewFun`, `Logic`,
`Evaluate` (the reductions that run terms).  The name of a call is an identifier on bison's
stack, of which `Shift` allocates the term, as of a variable's.  `frames` is the C stack of the
functions that run terms, one record for what each still has to do.  `Eval` is
`eval_string()` or `eval_file()`; `SyntaxError` ends `yyparse()` and leaves the rest of
`input` in flex's buffer.  The functions of the language appear as one of each
kind: `print` for those that return NULL, `getenv` for those that return a new
string, `setenv` for the one that returns its second parameter unevaluated, `sleep` for
those that read a parameter the table does not ask for, `vars` for those that walk the
program's own lists, `poweroff` for those that do not return.  `Known` is
`lookup_function()`: a call with too few parameters is a syntax error.  `Compared` is `term_compare()`,
which reads the right term as what the left one is, and not at all if the left one is neither
a string nor a number nor a boolean.  `result` is
`parser_result`, which `repl()` prints when the input was a line typed at the prompt
(`EndParse`); printing resolves it, and so runs a call a second time.
Calls nest through `Resolve`, and a variable that was set to such a parameter may refer to
itself: `MaxDepth` frames are the end of the stack.

`ScriptLang` defines `Value`, `Truth` and `Exec` on a record of variables and
environment.  A negation has the value it has when its statement is read, since the
parser computes it then (`parser.y:122`).  Where the code gives no meaning to a script it says so (`Wild`,
`Unspecified`, an empty `Truth`): a result that is NULL, a comparison of values of
different kinds, an order of numbers whose difference is no `int`.

### RootDisk

`at` gives every device that is present its name and number; `Appears` and
`Vanishes` may use both again.  Each read of a file of sysfs is an action
(`ReadDisk`, `ReadDev`, `ReadNumber`), and so is each `scandir()`.  The disk of
the root filesystem stays: it is mounted.  `Link` is everything after the scan,
which touches no file that changes; `stat()` of the root filesystem's device, or any of the
`symlink()` calls, may fail (`refused`).

### LineEdit

A key is read and handled in one step, because nobody else touches what it changes; an escape
sequence is a key.  `buf` and `pos` are the line and the cursor, `history` the array
with the slot of the edited line at its end, `index` the distance from that end, and
`screen` the bytes in the row with the terminal's cursor.  `Refresh` is
`refreshSingleLine()`, whose loops over unsigned lengths are the differences `Scrolled` and
`Shown`; below zero they are lengths beyond any memory, and the write ends PID 1.
`linenoiseEditInsert` alone writes a single character in the "trivial case".  A character
in the last column leaves the terminal's cursor there, so that the erasing of the rest of the
row, which follows, takes it away: the row shows at most `cols - Plen - 1` characters.
Characters are letters, the space that `CTRL-W` looks for, and NUL, which a terminal
sends for `CTRL-Space`, which goes into the line and ends it for `strdup()`.  `HangUp` makes
`read()` fail, which counts as Enter (`ReadFails`), and makes `isatty()` false at the next
prompt (`NoMoreInput`).

### Boot

One action per step of `main()` and `switch_root()`.  A step under `OK_OR_WARN`
or `OK_OR_DEBUG` may fail and go on, up to `MaxFaults` of them; one under
`OK_OR_FATAL` may panic.  `Files` are the files of every filesystem, named by where the
initramfs shows them, `on` says what is mounted where, and a mount hides what lies
below.  `Cleanup` computes in one step what the recursive `cleanup_dir()` removes; the
removals of any set of entries may fail (`stuck`, one of the faults), which keeps them and the
directories above them.  `Link` makes the links if `/sys` is mounted and the root filesystem is
on a partition; on a disk without a partition table (`wholeDisk`) there are none, and that is
no failure.  That `stat()` or a `symlink()` fails is.

## 3. Runs and bounds

| Run | Instance | Distinct states | Shows |
|---|---|---|---|
| `block_device` | three disks (GPT, read-only MBR, empty), any three names, 2 ms | 366 969 | `WaitIsShared`, `NeverMissed`, `RightDevice`, `EveryCallReturns`, `KeepsPromise` |
| `block_device_stale` | an MBR disk and an empty loop device | violation | `UuidsFind` fails |
| `uboot_env` | one location of 3 cells, two names, two values, 3 writes, any number of restarts | 461 131 | `UniqueNames`, `OnlyTouchedDiffer`, `IsStore` |
| `uboot_env_two` | two locations (3 and 2 cells) of one device, three names of which one is empty, 2 writes | 1 698 701 | `SavedSurvives` |
| `uboot_env_leak` | the same with two names, one write | violation | `SavedIsOnStorage` fails |
| `system_cmd` | buffer of 4 bytes, pipe of 2, up to 5 bytes of output | 17 827 | `AllOutput`, `RevertedIfForked`, `TrimmedUnlessBlank`, `CallEnds` |
| `system_cmd_trim` | buffer of 3 bytes, one byte of output | violation | `OutputIsTrimmed` fails |
| `line_edit` | lines of up to 2 characters, history of 3 lines, prompt of 2 columns, terminals of 1 to 5 columns | 255 357 | `ScreenShowsLine`, `OnlyNarrowCrashes`, `CookedForCommands`, `MovesKeepLines`, `IsBook`, `ReplEnds` |
| `boot` | an initramfs with an init of its own, nested directories, a socket and a directory the script mounts on; 2 faults | 284 635 | `ExecsRealInit`, `CleansOldRootOnly`, `OldRootEmptied`, `HandedOver` |
| `root_disk` | an eMMC with two partitions and a boot area, a stick with one; names and numbers shared | 274 377 | `LinksRight`, `LinksComplete`, `ScanEnds` |
| `script` | 18 statements, two inputs of up to two of them, heap of 110 cells | 2 197 481 | `NamedOnce`, `NoDangling`, `MeansWhatItSays`, `AnswersLastStatement`, `OnlyMisuseCrashes`, `HeapSpec`, `KeepsVariables` |
| `script_compare` | the same | violation | `ComparesSameKind` fails |

The bounds, and why they are enough to meet the cases that matter:

- **`Tries = 2`**: with one turn of the loop left over there is a call that finds
  the budget used up, one that uses part of it, and one that uses it all.  Two
  disks give both orders of names, and the empty one comes before, between or after
  them; partitions 1 and 2 tell an off-by-one.
- **Names, `Cap`, `MaxWrites`**: two names and three cells give lists that fill
  a block exactly, leave room, and (in B) have no room.  Each write can be torn at
  each part, written back in each order, and interrupted; with three of them an old
  block meets a torn one.  The initial blocks are the ones a device may be shipped
  with: never written, valid, malformed under a valid checksum, and packed to the
  last byte without the final NUL.  The empty name is in `uboot_env_two` only, whose property says
  what becomes of it.  Restarts are unbounded.
- **`Length = 4`, `PipeCap = 2`, `MaxOut = 5`**: output fills the pipe, then the buffer,
  and goes on beyond both, and each read may return less than was asked for.  Three
  bytes are enough for a blank on either side of a character and for a blank between two.
- **`BufLen = 2`, `HistoryMax = 3`, `Cols = 1..5`, `Plen = 2`**: lines are empty, in
  between and full; the history holds two lines and the slot, so that it is full, drops its
  oldest line and has a first, a middle and a last entry; the terminal is narrower than the
  prompt, as wide, one column wider (every character scrolls), and wide enough for the line
  with and without its last column.  The number of lines typed is not bounded.
- **`MaxFaults = 2`**: `ExecsRealInit` speaks of one fault, and a second one breaks
  it (chdir and cleanup both failing), which the run would show if the property did
  not say so; a cleanup in which any set of removals fails counts as one; `CleansOldRootOnly` (proved) and `OldRootEmptied` are stated for any number.  The socket
  lies two directories deep, so that what stays above it is seen.
- **Names and numbers of devices**: the stick may have the number of the boot area,
  and after a replug another name, so a name or number read before may belong
  to another device when it is used.
- **`Inputs`, `MaxEvals = 2`**: up to four statements in all, with a collection
  before each input.  The statements alias, assign from
  a function, nest calls, compare, negate a variable that the block before has set, keep and
  print results that are NULL, call with too few parameters, switch off, and fail to parse.
  Each input may be a file or a line of the prompt.  `HeapCells = 110` holds three or four
  statements, so that some scripts run out and most do not.  `IntBits = 3`: the numbers -4..3, so that sums wrap.
  `MaxDepth = 6` frames is more than any expression of these scripts needs and is reached
  only by a variable that refers to itself.

`CHECK_DEADLOCK FALSE` stands in the runs of `Boot`, `SystemCmd` and `LineEdit`, whose systems
stop: a boot ends in the real init, in a panic or in a restart, `fwup_revert()`
restarts the machine, and the prompt ends.

Every property of a passing run has a mutant of the code in `PROJECT.json`: a
changed definition (a dropped guard, a counter that is not static, a sector that is not
reset...) under which TLC finds that property violated.

## 4. Fairness

- `BlockDevice`: weak fairness of the call's steps together.  PID 1 runs, no step
  of a call blocks, `usleep()` returns.  Nothing is assumed of the kernel:
  `EveryCallReturns` holds if no disk ever appears.
- `SystemCmd`: weak fairness of init, and of the program's `Exec`, `Write` and `Exit`:
  programs are scheduled and end after they have written what they have to.  Nothing is assumed of a
  background process, which is why `CallEnds` lets a call wait for one.
- `RootDisk`: weak fairness of the scan.  It is not starved by devices that come
  and go, because each list of names is read once.
- `LineEdit`: weak fairness of what the program does by itself: beginning a line, keeping and
  evaluating one, and noticing that the terminal is gone.  Nobody has to type, and the terminal
  need not hang up; `ReplEnds` speaks of one that has.  That `eval_string()` returns is an
  assumption about the line, which the other modules look at.
- `UBootEnv`, `Boot`, `Script` state no liveness.  `close()` waits for the write-back,
  which the kernel may do whenever it likes; a script may loop in a program, a
  `sleep()` or the REPL.

## 5. Proofs

All theorems hold for every value of the constants that satisfies the
assumptions next to their declarations, which TLC evaluates in the runs.

| Module | Theorem | Assumes besides |
|---|---|---|
| `BlockDeviceProofs` | `TypeAlways`, `WaitIsSharedAlways`, `RightDeviceAlways`, `NeverMissedAlways`, `PromiseKept` | |
| `UBootEnvProofs` | `UBootEnvTypes`, `UniqueNamesAlways`, `OnlyTouchedDifferAlways`, `SavedSurvivesAlways`, `IsStoreAlways` | |
| `SystemCmdProofs` | `TypeAlways`, `AllOutputAlways`, `StatusAlways`, `RevertedIfForkedAlways`, `TrimmedAlways` | |
| `LineEditProofs` | `TypeAlways`, `OnlyNarrowCrashesAlways`, `CookedAlways`, `ScreenShowsLineAlways`, `MovesKeepLinesAlways`, `IsBookAlways` | |
| `BootProofs` | `BootTypes`, `ExecsRealInitAlways`, `CleansOldRootOnlyAlways`, `OldRootEmptiedAlways`, `HandedOverAlways` | |
| `RootDiskProofs` | `RootDiskTypes`, `LinksRightAlways`, `LinksCompleteAlways` | |
| `ScriptHeapProofs` | `HeapTypeAlways`, `NoDanglingAlways`, `NamedOnceAlways`, `KeepsVariablesAlways` | |
| `ScriptProofs` | `ScriptInvAlways`, `HeapSpecAlways`, `ScriptKeepsVariables`, `ScriptNoDangling` | |
| | `CleanAlways`, `NullOnlyInCompareAlways` | the scripts are careful (`CarefulScripts`) |

The assumptions: partition numbers are not 0, only disks with a table have
partitions in use (`DiskAssumption`); the blocks of a device have no name twice,
as `mkenvimage` and U-Boot write them (`EnvAssumption`); buffers and pipe have
room for a byte (`CmdAssumption`); the initramfs is a tree and the script mounts
nothing over its own init (`BootAssumption`); a disk's partition numbers differ and
no device is called "none" (`RootDiskAssumption`); a line has room for a character and the
history for two lines (`LineAssumption`); sizes are natural numbers
(`HeapAssumption`); an `int` has at least two bits, the texts of numbers and booleans are strings, and
the grammar derives every statement (`ScriptAssumption`).

**BlockDevice.**  `Inv` joins the type invariant with three facts.  *Waited*: slept
and tries add up to the budget, plus the one `tries--` that is still due inside the
loop; without that term the sum is not kept by `Sleep`.  *Naming*: no two disks share a
name.  *Probed*: a path found by UUID is that of the disk asked for, or that of an
empty disk, where no partition node can exist - this is what makes
`RightDevice` true of partitions in spite of the stale sector.  The empty disk then
sorts before an MBR disk it was probed after, and names do not change, so a disk once
`Hidden` stays so (`HiddenStays`).  For `NeverMissed` a second
invariant says that a device that was in place stays so and that the path found
is its path, unless it is hidden.  `PromiseKept` maps each step to a step of `DeviceOpen` or a
stutter; what `DeviceOpen` may serve includes an empty disk in place of a whole MBR disk, and no
other device in place of a partition.

**UBootEnv.**  Whether a load can bring a name twice depends on blocks that are
mixtures of several writes.  The invariant therefore speaks of checksums: each one on
the device, in the cache or torn, was computed over *one* row without repetition, and a
block is loaded only if its data is that row (`Inv`).

The other theorems follow a map through the code.  A load parses a row from the front and so
gives the list backwards, a save sorts the list and writes it; the lemmas
`ParsedMap`, `SortedMap`, `SetenvMap` and `EncodedMap` say that none of this changes the map, as long
as no name is twice in the list.  The one name that does is the empty one, which
sorts to the front and is no pair to `uboot_env_read()`: a block saved with it holds nothing.
`HistInv` says that the list and the block of its location agree but for the names set
since, and that cache and storage differ only while a save runs or after one that left the
device open; `OnlyTouchedDiffer` and `SavedSurvives` follow.  For the refinement `PastInv` says that each checksum,
in the cache or on the storage, is that of a map the location may fall back to, which makes a
mixture of two blocks either one of those maps or unreadable (`MixEnds`).  `SumInv` says what a
malformed block with a good checksum can be: one that was there at first, or one that begins with
the empty name, of which nothing is read (`SavedSum`); so a failed load leaves no variable
that was in the list before (`FailedLoad`).  `IsStoreAlways` maps each step to one of
`EnvStore`, whose constant `Unreadable` is the empty name.

**SystemCmd.**  The buffer's index is a function of the bytes consumed
(`index = Least(consumed, Length - 1)`), and once init waits there is no writer
and an empty pipe, which no step of another process can undo: a program without
the pipe cannot hand it on.  `TrimmedAlways` follows the two pointers of
`trim_string_in_place()` over a buffer that is a sequence of blanks, NULs and others.

**LineEdit.**  `LineInv` joins the type with `OnlyNarrowCrashes`, with what raw mode
depends on, and with the fact that every line of the history could have been entered, which
the buffer's limit makes true also of lines that were changed in the history.  For `IsBookAlways` a key
is a stutter of `LineBook`, or an `Amend` when it moves to another line; the end of a line is a
`Give`, a `Lose` or a `Leave`, according to what happens to the slot.  `MovesKeepLines` needs of a move
that the slot it writes and the entry it reads are two different ones.  For `ScreenShowsLine` the
invariant `RowInv` says that the row is what `refreshSingleLine()` would write now; a character that
`linenoiseEditInsert()` writes alone keeps that because its condition makes the whole line fit
before the last column (`RowOfShort`).

**Boot.**  `ExecsRealInit` is not inductive.  `InitInv` says at each stage of
`switch_root()` which failure has been spent, and that a cleanup without a failure took
the initramfs's own init away.  For `CleansOldRootOnly` the lemmas show what
`cleanup_dir()` can reach past its skip list: only the initramfs and what the script
mounted in it, which stays mounted.  `OldRootEmptied` adds what the cleanup leaves when it has
run (`CleanupEmpties`), and that the steps after it touch neither mounts nor files
(`LateStepsKeepMounts`); that is where its order in `switch_root()` matters.  `HandInv` says for each
stage what a boot without a failed step has done so far, with the links or, for a root filesystem
on a whole disk, without; `HandedOver` is its last stage.

**RootDisk.**  Once the root filesystem is mounted, its disk's names and numbers are
fixed and nobody else can have them.  The invariant says of every entry of the scan that
if its parent has the name of that disk then it is one of its partitions, and if it has
the root filesystem's number then it is the root filesystem.  A boot area the root
filesystem is on is the exception that has to be carried through the
invariant: it shows up below the disk, but without a number.  `LinksComplete` is about the
other direction.  `CompleteInv` says (`Coverage`) that at each stage of the scan the disk is still
to be listed, or each of its partitions is in `infos` or among the names still to be read; so
the links are made from a list that misses none.

**ScriptHeap.**  `HeapInv == HeapTypeOK /\ NamedOnce /\ NoDangling` is inductive and its
parts need each other: `CopyVariable` keeps a name unique only because the name is
in one of the two lists and never in both, and the copy is well formed only because the
old pointer leads into the old heap.  `KeepsVariablesAlways` maps the list, the heap and the
collector to the map of `VarStore`: a value is what a walk of the list finds, in the new list or else
in the old one (`Meaning`).  Two variables may share a term, so the step that counts is
`SetVariable`: it replaces a pointer and never a term, and other names keep their entries
(`SetVariableKeepsOthers`); a new term and each of the three steps of a collection keep every
value, also a step that finds the heap full.  These theorems are about `HeapSpec`, under which the rest of
the program may do anything that allocates terms and sets variables.

**Script.**  `HeapSpecAlways` is the link from the interpreter to those theorems: for any scripts,
each of its steps is a step of `HeapNext` or leaves the heap alone.  The interpreter keeps pointers where `ScriptHeap` does
not see them - on bison's stack, in the frames of the running functions, in what one of them returned, in
`parser_result` - and a collection moves every term without looking at any of them.  What the
theorem needs is therefore that all of them lead into the heap in use, which is `ScriptTypes`, and that
none is left when a collection starts, which is `Bison`: the statement that is being parsed is a
derivation whose stack, joined with what the running functions will push on it, has the symbols the rest of
the reductions take (`Parses`), so that the stack is empty when no statement is left.  The other
parts are what makes that inductive.  `RetFits` and `Chain` say that a function that reads a result
without looking runs behind one that returned a term of that kind (`term_to_string()` before
`get_variable()`, for example), and that what ends in bison has no caller; `TermsSound` that a call has as many
parameters as it reads and an assignment an identifier as its first, as `lookup_function()` and the grammar see
to, and that a number fits an `int`.  `ScriptInv` joins them with `HeapInv`; each action has its lemma, and
the ways a function can go on - call others, return, push - have one each (`CallsKeep`,
`ReturnKeeps`, `PushKeeps`).  What remains possible, and is in `HeapNext`, is that a pointer is NULL.
`ScriptKeepsVariables` and `ScriptNoDangling` then follow for the interpreter.

**Careful scripts.**  Which pointers are NULL depends on the scripts: `print()` and its like return none, and
`setenv()` returns a parameter as it stands.  To bison such a call is a term like any other; `Left` gives it a
symbol of its own, `"call"`, and a statement is `Careful` if no operator, condition or function takes that
symbol, and `sleep()` has its parameter.  This is a property of the script's text.  `NullOnlyInCompareAlways`
says that in careful scripts a pointer kills PID 1 in `term_compare()` only, and there only for a string that is
compared with a number or a boolean (section 6).  Its invariant `CleanInv` says that a variable, and
what a function returns to one that reads it without looking, lead to a string, a number or a boolean (`PlainValues`), and
that a call takes its parameters from terms that have a result (`Resolvable`).  For the stack it needs `Parses`
again: a value that `Parses` calls a term is one of these, and the calls still to run push no others.  In
`Script.cfg` the careful statements are all but those of `Misuses`, which the assumption
`CarefulAreTheOthers` has TLC evaluate.

**Model-checked only.**  Liveness (`EveryCallReturns`, `CallEnds`, `ScanEnds`) and what
needs ENABLED are out of the prover's reach.  `ScriptLang` uses recursive operators over
the trees of statements, for which the prover has no support; so `MeansWhatItSays`, `AnswersLastStatement` and
`OnlyMisuseCrashes`, which compare the interpreter with it, stay with TLC.  `OnlyMisuseCrashes` is about what a
script does when it runs, and about the end of the stack too; `NullOnlyInCompareAlways` is about its text.  That `Post` of a tree is
derived by the grammar is an induction over trees: TLC evaluates it for the statements of the run, and the
theorems assume it.

## 6. Findings

1. **A stale sector hides a disk** (`block_device.c:133`, run `block_device_stale`).
   `pread()` of an empty disk returns 0, which is not an error, and the MBR of the disk
   read before is parsed again.  An unbound `loop0` sorts before `sda` and takes
   its UUIDs.
2. **saveenv() leaks its descriptor** (`script.c:553`, run `uboot_env_leak`).
   After a save without room the device stays open, so the `close()` of a later
   save does not wait for the storage and `reboot()` does not sync.
3. **A blank output ends PID 1** (`util.c:106`, run `system_cmd_trim`).
   `trim_string_in_place()` of a string of blanks only looks for the last character from
   one below the first, and runs below the buffer; the length that comes of it is negative.
   A program whose only output is a newline is enough, of which `script.c:605` says
   "There's usually a newline to trim anyway."
4. **term_compare() trusts the left kind** (`script.c:262`, run `script_compare`).  The comment
   before it says "Left and right are the same now."  A string compared with a number makes
   `strcmp()` follow the number.

Disagreements and dangers seen while modelling that no run is spent on:

- `fork()` is not checked (`cmd.c:16`, `cmd.c:67`).  `waitpid(-1)` returns -1 without children,
  which equals `pid`, and the status is never written: `fwup_revert()` may reboot without
  fwup.  `SystemCmd` has the step (`ReapAny`), `RevertedBeforeReboot` is what it breaks, and
  `RevertedIfForked` is what remains.
- `cleanup_dir()` tests a bit of `DT_DIR` (`nerves_initramfs.c:126`), which is a value and not a
  flag; block devices and sockets are taken for directories and stay, with the directories
  around them.  `Boot` has them (`Odd`), and `OldRootEmptied` excepts them.
- `setenv()` sets `uboot_env.modified` also if the value stays the same (`script.c:513`);
  `README.md:66` says of it "and it differs from what's on disk".
- A unary minus is evaluated when it is parsed (`parser.y:122`): before the actions that
  precede it in its block, and also if the rule's condition is false.  `ScriptLang` has it so.
- `sleep` is listed with no parameter (`script.c:712`) and reads one: `sleep()` ends PID 1.
  `cmd()` drops its parameters from the sixteenth on without a word (`script.c:592`).
- The prompt prints `parser_result` by running it again if it is a call, as the second
  parameter of `setenv()` may be (`nerves_initramfs.c:243`, `script.c:516`); a command in it
  runs twice.
- A line of full length that is recalled from the history loses its last character
  (`linenoise.c:718`); a terminal no wider than the prompt ends PID 1 (`linenoise.c:513`);
  the line that was half typed when the terminal hung up is evaluated (`linenoise.c:803`).
- `term_compare()` orders numbers by their difference, which may not fit an `int`
  (`script.c:267`).
- A variable set to the result of `print()` is NULL and ends PID 1 at the next
  collection, one set to that of `setenv()` may be a call that is run again at each
  use (`script.c:516`).  `ScriptLang` calls both unspecified and `OnlyMisuseCrashes`
  allows them; `term_dupe()` drops a call, so the variable is NULL after a collection.
- The rest of an input after a syntax error is run before the next one
  (`parser.y:107`).
- After `setenv("", ...)` and `saveenv()` nothing of the environment can be loaded any more
  (`uboot_env.c:47`): the pair is sorted to the front and is none to `uboot_env_read()`.
  `SavedSurvives` says so.  `uboot_env.count = 0` makes `env_size - 4` wrap
  (`script.c:541`).
- The second chunk of an input longer than flex's buffer is taken to be too
  long (`lexer.l:69`).
- The length of the dm target is given in the disk's blocks, which device-mapper counts in 512 bytes
  (`nerves_initramfs.c:219`).

## 7. What is not modelled

- `crc32.c` is third-party code; UBootEnv's checksum is ideal.
- Of `linenoise.c`: completion, hints, the multi-line mode, history files and key codes, which
  nothing in this program calls; what the cursor query of `getColumns()` reads; a failing
  `strdup()`; typed characters that the settings of the terminal discard; a hang-up between the
  `read()` of a key and the `write()` of its row.  A character is one column wide: a TAB or a
  character of several bytes is not, and shifts the row.
- `util.c` logs and formats; `fatal()` is the failing case of the steps that
  call it.
- Of the functions of the language, `env`, `ls`, `blkid` and `help` print, and `readfile` is a
  `getenv` of another source; `reboot` is `Restart` in `UBootEnv`.  How long `sleep` sleeps
  (`milliseconds * 1000` is an `int`).
- In `Boot` the prompt is a further chance for the script to act; what is typed there is the
  subject of `LineEdit`, and what it does that of `Script`.
- The tables that flex and bison generate, and tokens: a statement is a tree or an
  error.  A syntax error takes its whole statement, and a call that is rejected is the last
  thing in its statement; what stands before an error in the middle of one may have been
  evaluated already, which is left out.
- Malformed GPTs, the content of device-mapper requests, the values of the
  default variables other than one boolean.
- `src/builder`, scripts, the Elixir demo and the shell tests with their `LD_PRELOAD` shim are no part of the
  running program.

## 8. Plan

Done, in this order, the most important behaviour first: `BlockDevice` with
`DeviceOpen`, `UBootEnv` with `EnvStore`, `SystemCmd`, `Boot`, `RootDisk`, then
`ScriptHeap`, `Script` and `ScriptLang`, each with its runs and, where the prover
reaches, its theorems.  Then the prompt, `LineEdit` with `LineBook`; the trimming in
`SystemCmd`; and in `Script` the lookup of functions, calls that are rejected, functions
that do not return, the result of a line, and the time of a negation.

Next, extending the model:

1. The codec of the environment in bytes: `uboot_env_read()` and `uboot_env_write()`
   over a small alphabet with NUL, `=` and 0xff, against a reference, with the
   width of `env_size - 4`; the round trip as the property.
2. `Script`: a syntax error in the middle of a statement after part of it was
   evaluated.
3. `lexer_next()` with its chunks as an algorithm against a reference definition.
4. `Boot` composed with `DeviceOpen` in place of the atomic `Resolve`, so that
   the script's calls and the final mount share the budget in one model.

Proved, besides the invariants of each component: that `BlockDevice`, `UBootEnv`, `LineEdit`,
`Script` and `ScriptHeap` implement `DeviceOpen`, `EnvStore`, `LineBook`, `ScriptHeap` and `VarStore`.

Proved besides: that a pointer kills PID 1 in careful scripts only where kinds are compared that differ.
Next would be that their calls nest no deeper than their statements, so that the stack never ends.
