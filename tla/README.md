# YukiFS: formal model

YukiFS is a small disk file system for Linux: a kernel module, a program that
makes volumes (`mkfs.yukifs`) and two that inspect them. This directory holds TLA+
modules translated from its source, the TLC configurations that check them on small
instances, and theorems checked by TLAPS.

    tlc -config Concurrent.cfg MCYukiFS      # a run: see "What the runs check"
    tlapm YukiFSTable.tla                    # a proof

The proofs of `YukiFS` build on each other: `YukiFSTypes`, `YukiFSTable`, `YukiFSDir`, `YukiFSOne`,
`YukiFSKeeps`, `YukiFSPromise`, each extending the one before; `ReadDirProofs` rests on `YukiFSKeeps`.

All paths below are relative to `src/`.

## The system

| component | source | state it keeps | operations |
|---|---|---|---|
| file operations | `src/ko/file.c` | cached inodes (`i_private`, `i_size`), `f_pos`, the counters of `s_fs_info`; on disk the inode table, data blocks, superblock | `yukifs_lookup`, `_create`, `_unlink`, `_open`, `_read`, `_write`, `_update_statfs` |
| directory listing | `src/ko/file.c` | `ctx->pos` of an open directory | `yukifs_iterate_shared`; `yukifs_getattr` only reports |
| block and table access | `src/ko/misc.c` | none | `yukifs_blocks_read`, `_write`, `yukifs_inode_table_*`, `yukifs_data_blocks_read` |
| mount | `src/ko/inode.c`, `yukifs_init_root` of `file.c` | `s_fs_info`, the root inode | `yukifs_fill_super`, `yukifs_statfs`, `yukifs_put_super` |
| mkfs | `src/mkfs/mkfs.c` | the layout, a count of zeroed bytes, the file offset | option checks, layout, confirmation, zeroing, header, table |
| inspection | `src/infofs/*.c` | none, read only | print superblock, header, blocks |
| older copy | `src/ko/*.simple.c` | not built | |
| generator, build, tests | `tools/`, Makefiles, `*.sh` | none | |

**How they interact.** mkfs writes a volume; the module finds header, superblock and
inode table in it by arithmetic of its own. At run time everything goes through
shared state. Each file has one `file_object` in the inode table and one data
block, the block of the same index; the directory is one block of inode indices.
`create`, `unlink` and `write` all end in `yukifs_update_statfs`, which reads the *whole*
table, sets the size of every entry with the file's name, writes the whole table
back, recounts the free objects into `s_fs_info` and writes the superblock. The
module takes no lock of its own. What it gets is what the VFS holds: the directory's
`i_rwsem` for `create` and `unlink` (shared for `lookup`), a lock on `f_pos` per
descriptor, and nothing between `write` and the rest.

**What is hard**: interleavings of whole-table read-modify-write; crashes and failing
accesses between the directory write, the table write and the superblock write; three
copies of a size (`f_pos`, `i_size`, `fo->size`); memory that is freed and still used;
names that the cache holds for removed while the directory has them; 32 bit arithmetic at the ends of its
range; formatting that stops half way.
`PROJECT.json` lists each hazard at its line with the property that covers it.

**What makes each component correct.**

* *File operations*: no call destroys what another call put into the table or directory
  (`RootIntact`, `OwnBlock`, `NoLostEntry`, `NameStep`); a reported success is one
  (`CreateTakesEffect`, `UnlinkTakesEffect`); between calls, directory, table, counters
  and cache agree (`DirSound`, `CountsMatch`, `CacheCoherent`); nobody writes another's
  block (`BlockOwner`, `AppendKeepsPrefix`); calls return (`CallsReturn`). Seen from
  outside there are names and files, and each call changes one (`KeepsPromise`).
* *Directory listing*: what is there throughout is listed, once (`ListedOnce`), nothing else
  is (`ListedExists`), and a listing ends (`ListNotStuck`, `ListingEnds`), whatever one caller creates,
  writes and removes between and during its calls. This rests on a directory with one entry to a name, which
  the code does not always keep: see "Where properties do not hold".
* *Mount and mkfs*: the two agree on where everything is (`LaidOut`, `SuccessMounts`);
  mkfs stays in the device (`InDevice`), loses nothing it was not allowed to
  (`NothingLost`), never leaves a volume that mounts and is not whole (`NeverHalf`), and ends
  (`Ends`).
* *Inspection*: the tools find every volume that mounts and read it as the module does (`ToolsAgree`).

## The modules

| module | models | content |
|---|---|---|
| `DiskObjects` | the data on the disk | file objects, blocks, the pure parts of `create`, `unlink`, `write`, `update_statfs` |
| `YukiFS` | `file.c`, `misc.c`, mounting | the state machine; its properties |
| `Files` | the promise of `create`, `unlink`, `write` to a program | abstract specification: names and files |
| `YukiFSFiles` | | refinement mapping from `YukiFS` to `Files` |
| `ReadDir` | `yukifs_iterate_shared`, composed with `YukiFS` | the listing beside the handlers; its properties |
| `MkfsLayout` | layout in `mkfs.c`; addressing in `inode.c`, `file.c`, `misc.c` | sizes and offsets with their widths |
| `Mkfs` | `main` of `mkfs.c`; the search of `fill_super` | one run, by system calls; its properties |
| `ImageTools` | `infofs.c`, `viewfs.c`, composed with `Mkfs` | what the tools compute from an image |
| `YukiFSTypes` | | proof of type correctness |
| `YukiFSTable` | | inductive invariant of the table; `RootIntact`, `OwnBlock` |
| `YukiFSDir` | | inductive invariant of the directory's block; `NoLostEntry` |
| `YukiFSOne` | | one caller: `CountsMatch`; `CreateTakesEffect`, `BlockOwner`, `NameStep`, `AppendKeepsPrefix` |
| `YukiFSKeeps` | | one caller whom nothing fails: `DirSound`, `UnlinkTakesEffect`, `CacheCoherent`, `OnlyEmptyOnesStay` |
| `YukiFSPromise` | | proof that `YukiFS` implements `Files` |
| `ReadDirProofs` | | proofs about the listing beside the handlers |
| `MkfsProofs` | | proofs about `Mkfs` and `ImageTools` |
| `MCYukiFS`, `MCReadDir`, `MCMkfs` | | instances, symmetry, the properties of the violation runs |

### YukiFS

*State.* On disk: `itable`, `block`, `super` (one counter: `free_inodes` and `block_free`
always move together). In memory: `mounted`, `sbi` (the counter in `s_fs_info`), `rootfo`
(`i_private` of the root), `dentry` and `vnode` (what the VFS caches), `file` (descriptors).
Per thread: `pc`, the place in a handler, and `loc`, its local variables, which hold the
copies of table and directory that go stale.

*Grain.* One step is one block access with the computation up to the next, as
`sb_bread` and `sync_dirty_buffer` are the points where a handler sleeps and other callers
get in. The table takes `LastCluster + 1` steps to read or write, so a reader can see half
of a write. Stores to memory that others see (`i_size` and `fo->size` in `write`, reset, count
and save of the counters) are steps of their own.

| code | actions |
|---|---|
| `yukifs_lookup` | `Lookup` (reads only, one step: create and unlink are locked out; a concurrent `update_statfs` changes sizes only) |
| `yukifs_open`, `_release`, `_read` | `Open`, `Close`, `Read` |
| `yukifs_write` | `WriteBegin`, `WriteBlock`, `WriteSize`, `Stat*`, `WriteReturn` |
| `yukifs_create` | `CreateBegin`, `CreateReadTable`, `CreateReadDir` or `CreateNoSpace`, `CreateWriteDir`, `CreateWriteTable`, `Stat*`, `CreateReturn` |
| `yukifs_unlink` | `UnlinkBegin`, `UnlinkReadDir` or `UnlinkNoEntry`, `UnlinkWriteDir`, `Stat*`, `UnlinkReturn` |
| `yukifs_update_statfs` | `StatReadTable`, `StatWriteTable`, `StatReset`, `StatCount`, `StatWriteSuper` |
| an error return | `OpFails`; within `update_statfs`, whose result is ignored, `StatFails`; a write of no blocks, `NoBlocks` |
| mount, umount, power loss | `Mount`, `Unmount`, `Crash` |
| use of freed memory | `Recycled`; `Recycle = {}` means it keeps its contents |

*External: the VFS*, modelled from how the module uses it. `create` and `unlink` exclude
each other and lookup; `read` and `write` are serial per descriptor only. `O_TRUNC` reaches
`simple_setattr`, which sets `i_size` after `->open` has set `f_pos`. `write` of length zero
reaches `->write`. After `create` the dentry has no inode, as the module does not
instantiate it: one that was negative stays so. After `unlink` of a closed file the dentry is left in the
cache, negative (`d_delete`); that of an open file is dropped. A negative dentry answers for the file system: no lookup is
made, and a `create` of the name comes at once, whether the directory has the name or not. Such a call is made
when a program creates a name again after `rm a; touch a`; it is in the model with `"create_again"` in `Env`. Unused dentries may be
evicted at any time. A volume is unmounted with nothing open. A written block is on the disk
when `sync_dirty_buffer` returns; its error is ignored by the code, and modelled as not
occurring.

*Abstraction.* Blocks are `W` words of directory slots or abstract data. Names are model values; `RootName` is `"$"`. Length
12 and more of names is left out, as are `inner_file`, permissions and times.

### Files and the mapping

`Files` knows a function from names to sizes and contents, the call in progress and how many inodes
no file uses. A call begins, takes effect, and returns only when it has; `create` alone may be refused,
and only when the directory or the inodes are used up. Two weaknesses of the code are part of
the promise: the contents and the size of a file change one after the other (`WriteData`, `WriteSize`;
`unlink` clears the contents first), and an `unlink` may leave its inode taken (`Unlink`, `Reclaim`).

`YukiFSFiles` maps the disk, not the caches: a file exists when a slot of the directory leads to
an inode of its name (`Visible`), so `create` takes effect when the block of the *table* with the new object is
written, although the directory is written before, and `unlink` when the directory is. Everything between
is a stutter: the directory write of `create`, the table writes of other clusters, counters, superblock,
caches, mount and unmount. `OnlyEmptyOnesStay` says which inodes stay taken.

### ReadDir

| code | actions |
|---|---|
| `opendir`, `closedir` | `ListOpen`, `ListClose` (external) |
| `iterate_shared` up to the size check | `ListBegin` |
| read of the inode table, a block each | `ListTable` |
| read of the directory and the loop over its slots | `ListDir`: `ListRest` when all entries fit, `ListSome` when `dir_emit` refuses one |
| an error return | `ListFails` |
| what others do meanwhile | `Beside`, `Volume` |

`lpos` is `ctx->pos`, in slots. `dir_emit` refuses an entry when the program's buffer is full, at any entry but
the first, or when the name is empty. In the latter case, if nothing was handed out before, `getdents` returns an error and the
position does not move (`"stuck"`). The VFS locks the directory for sharing around one call: `create` and
`unlink` wait for its end (`Beside`), while `write` and its `update_statfs` go on. Between calls nothing is locked.
`lgot` and `lstay` are history: how often each name has been handed out (up to `W + 1`, one more than there are
slots), and which names have been there since the listing began. A volume with an open directory is not unmounted.

### Mkfs

A cell of `image` says which volume (old, new) it belongs to and for which offset it was
meant, so that "the kernel finds the new superblock" is `image[o] = <<"new", p>>` for the
`o` that `fill_super` computes and the `p` at which mkfs meant it to be. Lengths are in units;
`Modulus` takes the place of 2^32. Every assignment to a `uint32_t` goes through `Wrap`. A
`write` may be short, fail, or be the last thing the process does; both a device (which ends)
and an image file (which grows) are modelled. The image is what the kernel shows of the device. mkfs never waits
for it to be stored, so after a loss of power any of its writes may be missing; that is not modelled.

`Mounts` is `fill_super` with `yukifs_init_root` on what is on the device at that moment. It refuses a device that ends
within the `ScanSize` it searches (16 KiB), takes the *last* cell with a start marker for the header, and
follows that to superblock and table. A block size outside `KernelBlocks` (a power of two from 512 bytes to a page) is
refused by `sb_set_blocksize`; the module goes on with it all the same, reads by one size what it counts by another,
and the root is not found (`inode.c` 156-160, `file.c` 808). Markers are where a header has its hidden data (`HiddenAt`) and, by chance, in the ELF stub of an
image and in the kernel module (`stray`, the two bytes at their outer ends). A unit is at least as
long as the hidden data, so that both of its markers are in one cell.

### ImageTools

`infofs` and `viewfs` change nothing, so they are operators on an image. They repeat the search of `fill_super`, without
its lower bound on the size of the device, and compute everything else anew: `infofs` from the counts in the superblock
(`Info`), `viewfs` in bytes, with a 32 bit variable (`ViewOffset`), where the module counts in blocks. `ToolsAgree` is
checked in every state of every run of mkfs, so on finished, failed and half-made images. Both tools read
the offset of the superblock from a buffer they have just freed; here it keeps its contents.

## What the runs check

All passing runs finish without error. Each property has a mutant in `PROJECT.json`: a
plausible slip (the `Bad...` operators) under which the run finds it violated.

| run | question | instance | states |
|---|---|---|---|
| `Concurrent` | Do stale copies destroy anything? | 2 threads, 1 inode cached, 1 descriptor, crash at any step, removal of the open file | 4,748,000 |
| `OneCaller` | Is the promise of `Files` kept? Do table, directory, counters and cache agree between calls? Is the invariant of the refinement proof invariant? | 1 thread, 2 descriptors, `O_TRUNC` | 121,000 |
| `Failures` | Does a success mean what it says? Do names change through their own calls only? Is the invariant of the table (`TableInv`) invariant? | 1 thread, 2 inodes cached, crash, fault, names created again, recycled memory | 801,000 |
| `Returns` | Does every call return? | 2 threads, a file called `$`, failing accesses, fairness | 40,000 |
| `Listing` | Is a directory listed in full, once, to its end? | 1 caller beside 1 listing, any cut of the calls, failing reads of the listing, fairness | 303,000 |
| `Mkfs` | Layout, mountability, tools, end | 5 device sizes, 7 block sizes asked for, every old block size, stray markers, end of the process, fault, short writes | 347,000 |

**Bounds and why they are enough.** `N = 3` inodes (root and two files), two names, `PerBlock = 2`
objects per table block: the smallest table of two blocks, so that reading and writing it is not
atomic and the second block holds a file that operations on the other do not concern. `W = 2` words per
block: the directory has as many slots as there are files, so it fills up, slots are used again while a
listing is between them, and a file can be empty, partly filled, full. Two threads suffice for one stale copy; longer
chains of stale copies need three and are covered by the proofs for `RootIntact` and `OwnBlock`. `Concurrent` keeps one
inode and one descriptor, so what meets is a `write` and a `create` of the other name, or a `write` and the `unlink` of the file it writes to; two writers at
once and failing accesses beside two callers are beyond its size (more than 5 minutes) and are covered by the proofs of all four of its properties, which
have no bound and hold for every `Env`. `MaxEnd` keeps writes inside the block (`MaxEnd = W`, in `Concurrent` and `Failures` 1), where the code would let
them run past it. `U = 16`
is the modulus of the counters. In `Mkfs` a unit stands for 1 KiB, which is `MinBlock` and `Padding`; `MaxBlock` is 8 KiB,
`ScanSize` 16 KiB, `KernelBlocks` 1, 2 and 4 KiB. `Asked` has each of these, 0 for none, 3 and 8, which mkfs takes and the kernel does not, and 9, which mkfs refuses.
The two violation runs take 512 bytes for a unit, to have sizes between two blocks. `ObjectSize = 1` makes
objects relatively larger, so that rounding shows; `Sizes` has a device smaller than the header, one smaller than
what is searched, some in which areas end on and off block borders, and one too large; `MaxPos` bounds a growing image.

**Where properties do not hold.** A passing run says which environment its properties were
checked in; outside it some are known to fail, for these reasons:

* a name created again that is there, while its dentry is negative (`rm a; touch a; touch a`: one program, nothing fails; run `CreateAgain`):
  `create` does not look for an existing entry and makes a second one. `DirSound`, `UnlinkTakesEffect` and `KeepsPromise` fail. A listing then hands the
  name out twice (`ListedOnce`), and when the file is written and removed, one of the two slots is left without a name, at which
  every listing ends in an error (`ListNotStuck`). `CountsMatch`, `CacheCoherent`, `CreateTakesEffect`, `BlockOwner`, `NameStep`,
  `OnlyEmptyOnesStay`, `AppendKeepsPrefix`, `ListedExists` and `ListingEnds` hold there too.
* two concurrent callers: `CountsMatch` (run `ConcurrentCounts`), and also `CacheCoherent`, `BlockOwner`,
  `DirSound`, `CreateTakesEffect`, `UnlinkTakesEffect`, `NameStep`, `KeepsPromise`: a stale table written by
  a `write` undoes what a `create` or `unlink` wrote. For the same reason `ListedExists` fails beside
  two callers. `AppendKeepsPrefix` fails with two descriptors on one file: `write` takes no lock of the inode, so that each of two
  writers builds its block from the old one (`file.c` 587-605) and one loses the words of the other. The four properties of `Concurrent` hold.
* a crash or a failing access: `CountsMatch`, `DirSound`, `UnlinkTakesEffect`, `KeepsPromise`, and with failing accesses
  `CacheCoherent`: several blocks are written in turn without a journal. `ListNotStuck` fails too: a crash between `create`'s
  two writes leaves a slot whose inode has no name, and from then on every listing ends in an error there.
* removal of an open file: `CacheCoherent`, `BlockOwner`; with recycled memory its inode can read as the root's, and a write to it reaches block 0.
* writes of length zero: a file that becomes empty is erased from the table by `update_statfs`, its slot
  stays: `BlockOwner`, `CacheCoherent`, `DirSound`, `NameStep`, `UnlinkTakesEffect`.
* loss of power while mkfs runs: `NeverHalf`, as writes that were not stored may be lost in any order.
* a block size that the kernel does not take: `SuccessMounts` excludes it (run `MkfsOddBlock`).
* a kernel module with the bytes of a marker within the first 16 KiB of the volume: `fill_super` takes them for the header, as
  the last one counts, and the volume does not mount. `SuccessMounts` excludes it (`ModuleMisleads`).

Some things hold by the shape of the code and are only stated here: `create` reports success without giving the dentry an inode
(`CreateReturn`), so that the open with `O_CREAT` that called it fails, and a second one succeeds unless the dentry is negative;
a second write at a position inside a file may end beyond the block, as only the length is limited (`WriteBegin`, `file.c` 551); a device with room
for the header but for no inode gets a free counter of 2^32 - 1 (`Superblock`) and its root behind the table (`MakeTable`);
`infofs` prints as end of the data what `block_free` gives (`Info`), the superblock what `block_count` gives, and the two differ on every volume;
`viewfs` without `--count` asks for 2^32 - 1 bytes instead of a block, and prints as many bytes as it asked for (`ViewRead`), not as many as it got.

**Findings.** Runs that TLC must find violated, each quoting what the repository says:

| run | violated | what happens |
|---|---|---|
| `ConcurrentCounts` | `CountsMatch` | two overlapping `update_statfs` leave wrong counters |
| `CreateAgain` | `UnlinkTakesEffect` | `rm a; touch a; touch a` makes two entries; a removal reports success and leaves one |
| `DollarName` | `RootIntact` | a file called `$` shares the root's entry: inode 0 is changed or erased |
| `RecycledWrite` | `WriteInOwnBlock` | `lookup` frees the memory `i_private` points into; a write goes to block 0 |
| `Mkfs4GiB` | `InDevice` | zeroing wraps just below 4 GiB and does not end |
| `MkfsOddBlock` | `AcceptedMounts` | mkfs accepts block sizes that cannot be mounted: the kernel refuses all but powers of two up to a page (3072, 8192), and one that is no multiple of 1024 hides the superblock besides |

**Deadlock** is checked for `YukiFS`: a volume can always be mounted, called or unmounted. The exceptions are
`Returns`, where a file called `$` lets the root's entry be erased, after which a volume cannot be mounted again, and `Mkfs`,
a program that ends. It is checked for `ReadDir`, too.

**Fairness.** `YukiFS!FairSpec` is weak fairness of each thread's `Work`: a thread in a handler is
scheduled, and no handler waits for another one. Calls, the environment and failures are not fair.
`ReadDir!ListFairSpec` adds to it weak fairness of the steps within a call of `getdents`, and strong fairness of its beginning: the
program goes on calling, and a reader that waits for the directory's `i_rwsem` gets it between two writers that come again and
again, as the semaphore queues. `ListingEnds` allows for a failure and for the program that closes the directory.
`Mkfs!FairSpec` is weak fairness of the program's own steps, not of failing calls: it runs, and
the user answers.

## What is proved

TLAPS checks the following for *every* value of the constants that meets the hypotheses (any number of files,
blocks, names, descriptors, any layout; any number of threads unless `OneCaller` is named), by induction over steps.
Every safety and action property that a passing run checks is proved; each theorem says under which hypotheses.

**Hypotheses.** They are conditions on the constants. Where one is needed, "Where properties do not hold" or the table says what
happens without it. In two places a run checks more than is proved: `Failures` checks `CreateTakesEffect`, `BlockOwner` and `NameStep` with
recycled memory too (no open file is removed there), and `Mkfs` checks `ToolsAgree` with a device that is too large.

| hypothesis | means | without it |
|---|---|---|
| `NoClash` | no file is called like the root | run `DollarName` |
| `MemoryKept` | freed memory keeps its contents (`Recycle = {}`) | run `RecycledWrite` |
| `OneCaller` | one thread makes all calls | run `ConcurrentCounts`: stale tables are written back |
| `AllGoesWell` | no crash, no failing access | counters and table differ |
| `FilesKeptOpen` | a file that is open is not removed | two inodes in memory for one block |
| `NoEmptyWrites` | no write of length zero | `update_statfs` erases a file that becomes empty (`file.c` 676) |
| `NoneCreatedAgain` | no name is created that is there, but that the cache holds for removed | run `CreateAgain`: two entries for a name |
| `NoSizeWraps` | no accepted size is within one chunk of the modulus | run `Mkfs4GiB` |
| `HeaderInReach` | the largest block is smaller than what `fill_super` searches | true of the code, 8 KiB and 16 KiB |
| `RootWhole` | a write falls short at the border of a unit, which holds an object (disks write sectors) | half of the root's object |
| `SizesAccepted` | a size fits in 32 bits | larger devices are refused; the proof does without that case |

**Any number of callers, crashes, failing accesses.**

* `YukiFSTypes!TypeCorrect`: `Spec => []TypeOK`. Types alone are not inductive: a label of
  a handler has to imply which call it belongs to and that its inode and descriptor exist (`LocalsFit`).
* `YukiFSTable!TableCorrect`, from which `RootStaysIntact` and `BlocksStayOwned`: `Spec => []TableInv`,
  `Spec => []RootIntact` and `Spec => []OwnBlock`, from `NoClash`. The table is written back from copies
  that are stale, so the invariant (`TableInv`) says that not only the table on the disk but every
  copy of it in every thread is sound (`SoundTable`: the root first; each other object free or owning the
  block of its index) as far as it has been read (`CopyFits`), and that copying a sound cluster into
  a sound table gives a sound table. It also holds with recycled memory.
* `YukiFSDir!DirectoryCorrect`, from which `EntriesKept`: `Spec => []DirInv` and `Spec => NoLostEntry`, from `NoClash` and
  `MemoryKept`. Unlike the table the directory is written under a lock, so nobody changes it between the read and the write of
  `create` or `unlink` (`OneInDir`) and the copy that is about to be written is one slot apart from the block (`Outgoing`). That
  `write` and `unlink` never touch block 0 when they write a file's block needs that an inode that is held has a block of its own
  (`HeldBlocks`) and that no two names share one in the cache (`OneName`).
* `ReadDirProofs!RootIntactBeside`: `ListSpec => []RootIntact`. The lemma `ListBeside` shows that
  every step of the composition is a step of `YukiFS` or changes none of its variables, so that what is proved of the file
  system holds beside any listing. `ListTypeCorrect`: `ListSpec => []ListTypeOK`; that a position left for the
  next call lies in the directory and that the table is read to its last block, no further.

**One caller, crashes and failing accesses included** (`YukiFSOne`; `OneCaller`, `NoClash`, `MemoryKept`, `FilesKeptOpen`,
`NoEmptyWrites`).

* `CallsCorrect`: `Spec => []CallInv`: the copies of the table are exact, but for the one change that the call makes (`TableFits`,
  `CreateFits`), and the locals and cached inodes are those of the name in question (`NamesKept`, `UnlinkFits`, `WriteFits`).
  A crash or a failing access may leave directory and table at odds, so nothing is said of how these two fit.
* From it `CreatedIsVisible` (`CreateTakesEffect`), `BlocksNotShared` (`BlockOwner`) and `NamesApart` (`NameStep`).
* `AppendsKeepPrefix` (`AppendKeepsPrefix`), from `AppendInv`: the size in the inode, from which the position starts, never exceeds
  the size in the file object, up to which `write` keeps the old contents (`SizesFit`), except for a file just removed.

**One caller, no crash or failing access**: `YukiFSOne!CountsRight` (`CountsMatch`) from `OneCaller`, `AllGoesWell`, `MemoryKept`
alone. The counters lag while a call is at work, so `CountInv` says for each label what has been counted; the number of
objects in use is related to the 32 bit subtraction, which does not wrap.

**One caller whom nothing fails, who removes no open file and creates no name again that is there** (`OneCaller`, `NoClash`, `MemoryKept`,
`FilesKeptOpen`, `NoEmptyWrites`, `AllGoesWell`, `NoneCreatedAgain`). The last is a condition that ordinary programs need not meet; it is needed, as
`CreateAgain` shows. The negative dentry itself is there after each removal of a closed file.

* `YukiFSKeeps!EverythingFits`: `Spec => []KeepInv`. Between the writes of a call directory and table do not fit each other, and
  between the writes of two blocks of the table the table does not fit itself. What fits at every step is the
  directory on the disk and the table *as it will be* when the call is over (`Settled`): each slot used leads to an object in use, no two to the same
  name, objects that share a name have the same size, and the rest are empty (`Sound`); a cached inode is what that table holds (`Coherent`). From it `DirectorySound`
  (`DirSound`), `RemovedIsGone` (`UnlinkTakesEffect`), `CacheAgrees` (`CacheCoherent`) and `LeftoversAreEmpty` (`OnlyEmptyOnesStay`).
* `YukiFSPromise!PromiseSteady` and `PromiseKept`: `Spec => []PromiseInv` and `Spec => KeepsPromise`, the refinement of `Files`. `PromiseInv` adds to
  `KeepInv` that the block of an inode without a file is blank (`Blanks`: a created file is an empty one, though `create` clears nothing) and that a `write` or
  `unlink` at work names the block and size of its file. `Simulates` says of a step that it is a step of
  `Files` or leaves the mapped state as it is; one lemma for each action (`...Simulates`, `...Still`) shows it, and `EveryStepSimulates` puts them together.
  That `create` is refused only when names or inodes are used up is an argument by counting: a slot for each file is an injection of files into slots (`Room`, `NoRoom`), the inodes in use
  are those of files and those left over (`Remainder`).
* `ReadDirProofs!ListingFits`: `ListSpec => []ListInv`; from it `EachListedOnce` (`ListedOnce`), `ListingGoesOn` (`ListNotStuck`) and
  `ListedAreThere` (`ListedExists`). What is known is that a file that has been there since the listing began has not left its slot, that it has been
  handed out exactly if the slot is in front of the position, and that the names read from the table are the ones on the disk when the directory is read,
  though `write` changes sizes in between.

**mkfs and the tools** (`MkfsProofs`): the end of the process at any step, failing calls, short writes included; loss of power not.

* `LayoutCorrect`: `Spec => []LaidOut`. The core is `Shared`: from
  `(A + b) * x <= B * b` follows `ceil(A * x / b) + x <= B`, so that the table, rounded up to blocks, and the data
  fit in what `x` was computed from; it follows that nothing wraps. That all areas are whole blocks
  (`HeaderBlocks`) makes the module's divisions exact.
* `PositionsKnown` and `StaysInDevice`: `Spec => []PosInv`, and from it `Spec => []InDevice`, from `NoSizeWraps`. `PosInv`: the offset equals the count of
  zeroed bytes in the loop and is at most the header's size before the table is written.
* `MkfsTypes`: `Spec => []TypeOK`. `NothingIsLost`: `Spec => []NothingLost`, with no hypothesis.
* `ImageKnown`: `Spec => []ImageInv`, from `NoSizeWraps`: which cells are old, zero and new when each phase begins (`Phases`), and after it has ended early. From it
  `NeverHalfMade` (`NeverHalf`; also `RootWhole`), as a device on which anything was zeroed has lost its old header and one on which the table has not been begun has no root,
  and `SuccessIsMountable` (`SuccessMounts`, for every block size the kernel takes; also `HeaderInReach`): the search finds the new header and no other, and header, superblock and root are where the module reads them.
* `SuperblockFound`: for a block size that is a multiple of the smallest, `fill_super` reads where mkfs wrote.
* `ToolsReadAlike`: `Spec => []ToolsAgree`, from `NoSizeWraps` and `SizesAccepted`. A volume mounts
  only if a cell at the place `fill_super` computes holds what was *meant* for the superblock's place, and no
  cell is ever written elsewhere than where it was meant to be: that is the inductive invariant (`InPlace` with `PlaceInv`). So the two places
  are one, whatever the block size, and from there on the arithmetic of tools and module agrees by the layout lemmas.

**Assumptions**: the named `ASSUME`s on constants in `DiskObjects`, `YukiFS`, `MkfsLayout`, `Mkfs`, among them that block sizes
and areas as such fit in 32 bits (`MaxBlock < Modulus`). TLC evaluates them in every run. The external VFS is as described under
"YukiFS".

**Only model-checked**: liveness (`CallsReturn`, `ListingEnds`, `Ends`), which is out of reach of the prover, as are `ENABLED` (absence of
deadlock) and induction over data, of which the proofs need none: `UpdateSizes` and the layout are given object by object and area by area.

## What is not modelled

* Contents returned by `read`; attributes, which only report `i_size` and constants.
* Loss of power during mkfs, which never waits for its writes to be stored.
* The size that mkfs works with in a dry run: the code takes it from a `struct stat` that it does not fill (`mkfs.c` 281), the model
  from the device. A dry run writes nothing, and no property is about what it prints.
* Writing *into* recycled memory through `i_private`, double frees and leaks on error paths (`yukifs_data_blocks_read` frees a buffer that
  its caller frees again; `create` keeps its buffers when it finds no room; the tools read the hidden data after it is freed), failing `kmalloc`, buffers of `inode_table_size` that whole blocks are read into.
* Torn counter updates within `StatCount`: the decrements of one call are one step.
* Options and output of the tools, and the tools on images that mkfs did not make: there they may meet one marker without the
  other, or a block size of zero.
* The unbuilt older copy (`*.simple.c`: `ko/Makefile` does not link it), the stub and its generator, scripts.

## Plan

Done: `DiskObjects`, `YukiFS`, `Files` and the refinement; `ReadDir` and its composition with `YukiFS`; `MkfsLayout`, `Mkfs` with
the search of `fill_super`, `ImageTools`; a proof of each safety and action property that a passing run checks and of the refinement.

1. Weaker hypotheses: which parts of `KeepInv` survive crashes and failing accesses (a slot may lead to an object without
   a name, and an object in use may have no slot), and which of `CallInv` survive two callers; `CreatedIsVisible`,
   `BlocksNotShared` and `NamesApart` without `MemoryKept`, `ToolsReadAlike` without `SizesAccepted`,
   to which TLC finds no counterexample; what is left of `KeepInv` without `NoneCreatedAgain` (`CacheAgrees`, `LeftoversAreEmpty`, `ListedAreThere`).
2. `Buffers`: allocation and release on every path of the handlers.
