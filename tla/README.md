# A verification of android_platform_system_extras

The repository is a collection of Android system tools. Three of its parts have logic that is hard
to test: the **wrapper**, which runs the native methods of an app in a process of their own; the
**ext4_utils**, which create filesystem images and convert existing ones in place; and
**fatblock** with **libublock**, which serve a directory as a FAT block device. This project models
all three; what it leaves out of them is said under *Not modelled*.

The modules are translated from the C and C++ sources. Names follow the source where TLA+ allows
it; `PROJECT.json` names the lines each definition stands for.

## Inventory

### wrapper

The app's Dalvik VM does not call a native method itself. `BpWrapper::taintCall` (in the app) sends
a `TAINT_CALL` binder transaction to the wrapper process. There `BnWrapper::onTransact` runs on a
thread of the binder pool, finds the `ExecutionManager` of the caller's Dalvik thread id and lets it
create a native thread, which invokes the method. When the method uses JNI, a stub in
`JniRemote.cpp` puts the request into the manager's mailbox `jniCall`; the waiting binder thread
answers the transaction with the status `WAIT4JNI` and the request. The app executes the JNI
function and sends the result in a `CALLBACK` transaction, which a binder thread puts into the
mailbox, and so on until the method returns and the status is `FINISHED`.

| part | state | operations |
| --- | --- | --- |
| `ExecutionManager` | `mStatus`, semaphores `mReplyReady` and `mJniReady`, `jniCall`, `platformInvoke`, per thread id; registries of strings and arrays | `startExec`, `setJniResult` (binder thread); `reqJniCall`, `signalResult` (native thread) |
| `BnWrapper` | tables of libraries and functions; the frame of each running `onTransact` | `ADD_LIB`, `ADD_FUNC`, `TAINT_CALL`, `CALLBACK`, `CHANGE_FUNC` |
| `BpWrapper` | one object per app: `jniEnv`, `replydata`, `callbackdata`, `cbdata`, `serviceAlive` | `taintCall`, `handleJNIRequest`, `doCallbackTransaction`, `restartService` |
| `Dispatcher`, death observer | the proxy, the state of the service | look-up, start and restart of the service |
| `ThreadManager` | a map from thread to JNI environment | add, get, delete |
| `JniRemote`, `call*` of `BpWrapper` | none | about 200 pairs of functions that pack and unpack arguments |

What is hard here: nothing but two semaphores orders the accesses of binder thread and native
thread to the mailbox; all app threads share the members of one `BpWrapper`; Java code run for a
JNI request may call a native method again, on the manager that still waits for the request's
answer; a binder thread's stack frame is written to through a pointer after it was left.
Correct means: a native call looks to the app like one made in its own process.

### ext4_utils

| part | state | operations |
| --- | --- | --- |
| `ext4fixup.c` | the image: directory entries, superblocks, descriptors, bitmaps, and a *magic* number that says how far the tool got | a sanity pass, then marking, updating and the superblocks; restart after a stop |
| `allocate.c`, `extent.c` | `aux_info.bgs`: bitmap, `free_blocks`, `first_free_block`, `data_blocks_used` of each group; the region list of an allocation | `allocate_blocks`, `allocate_block`, `reduce_allocation`, `reserve_oob_blocks`, attaching a list to an inode |
| `indirect.c` | region lists | the same for inodes with indirect blocks |
| `make_ext4fs.c`, `contents.c`, `ext4_utils.c` | `info`, `aux_info`, inode tables | geometry, directories, inodes, superblocks |
| `ext2simg.c`, `wipe.c`, `sha1.c`, `crc16.c`, `uuid.c` | - | copying and hashing |

What is hard: `ext4fixup` may be stopped between any two writes and has to find out from the image
what it has done; an inode number does not tell whether it has been converted. In the allocator
the interval of free blocks is described three times, blocks are given back on the assumption that
they were the last ones taken, and the last block group may have any size.

### fatblock, libublock

| part | state | operations |
| --- | --- | --- |
| `fs.c` | the list of extents, the FAT, the next free cluster | add, find and allocate an extent |
| `import.c` | the items of each directory being read, the list of free items, the tables | import a file, a directory, a tree |
| `fdpool.c` | a ring of open descriptors | open, evict, touch |
| `read.c` | the buffer of one read | find the extents, check and read a file |
| `ublock.c` | flags, `max_buf`, failures, buffers of the control device | `ublock_init`, `ublock_run`, `ublock_stop`, four requests |
| `fatblock.c` | the context, the USB mass storage file | `main`, callbacks, signal and exit handlers |

`fatblock` imports a directory tree into a list of extents and serves reads of the block device
from files it keeps open in a pool; `libublock` is the request loop on the control device. Hard are
the pool at its limit, items freed on error paths, a file that changes between its import, the
check of its time and its read, requests in an order nobody expects, and a signal during any of
it. Correct means: the device has the content the directory had, or the program ends.

### The rest

`libpagemap`, `procrank`, `librank`, `showmap` and the other tools read a file of the kernel and
print it; `su`, `sound` and `tests` have no state of interest. They are listed in `PROJECT.json`
as not modelled.

## Modules

| module | models | extends |
| --- | --- | --- |
| `ExecutionManager` | the manager and the native thread of a call | |
| `BnWrapper` | `TAINT_CALL` and `CALLBACK` on a pool of binder threads | `ExecutionManager` |
| `WrapperServer` | the service with an app that keeps to the protocol; the inductive invariant | `BnWrapper` |
| `WrapperServerProofs` | its theorems | `WrapperServer` |
| `BpWrapper` | the service with the client as it is: members shared by all threads, nested calls | `BnWrapper` |
| `BpWrapperProofs` | its theorems, the refinement of `LocalCall` among them | `BpWrapper` |
| `LocalCall` | abstract: a native call made in the process | |
| `Ext4Fixup` | the image conversion with stops and reruns | |
| `Ext4FixupProofs` | its theorems | `Ext4Fixup` |
| `Allocator` | block groups, allocation over several groups, extents of a file | |
| `AllocatorProofs` | its theorems | `Allocator` |
| `Wire` | memory blocks as sequences of fields; what a reader finds at an offset | |
| `JniRemote` | what each JNI stub packs, sends and unpacks | `Wire` |
| `JniHandlers` | what each `call*` function unpacks, calls and answers | `Wire` |
| `Marshal` | the function table, and one JNI call after another through stub, handler and answer | `JniRemote`, `JniHandlers` |
| `Registry` | the manager's lists of strings and arrays, and the stubs that use them | |
| `Service` | dispatcher, table of handles, death and restart of the service | `Registry` |
| `ServiceProofs` | theorems about both | `Service` |
| `FatFs` | extents, clusters and the FAT, as operators | |
| `FatFsProofs` | lemmas about them, whoever the extents belong to; induction over the natural numbers | `FatFs` |
| `Import` | the import of a directory tree | `FatFs` |
| `ImportProofs` | theorems about clusters, items and tables | `Import`, `FatFsProofs` |
| `LruPool` | abstract: a pool that forgets what was used least recently | |
| `FdPool` | the ring of descriptors | instance of `LruPool` |
| `FatRead` | a read of the device, step by step, against files that change | `FatFs`, `FdPool` |
| `Ublock` | the control device: requests, buffers, loops | |
| `FatBlock` | the whole program behind its import | `FatRead`, `Ublock` |
| `FatBlockProofs` | its theorems, the refinement of `LruPool` among them | `FatBlock`, `FatFsProofs` |
| `MCServer`, `MCClient`, `MCFixup`, `MCAllocator`, `MCMarshal`, `MCService`, `MCImport`, `MCFatBlock` | instances for TLC | |

### The wrapper's state and actions

All app threads have a Dalvik thread id (`Thread`); there is one manager for each. A `Call` is one
invocation of a native method; its arguments and its value are abstracted to its identity, so that
a value that reaches the wrong call is seen. The n-th JNI request of call `c` has the arguments
`<<"args", c, n>>` and the answer `<<"answer", c, n>>`. `txn[t]` is the synchronous binder
transaction of app thread `t`: sent, being served, or answered.

Actions are the code between two points at which another thread can interfere: a semaphore
operation, the start of a transaction, an access to a member other threads write.
`startExec` is `OnTaintCall` (parameters, status, `pthread_create`) and `ReplyIsReady` (its
`sem_wait`), the reply is built by `ReplyTaintCall`. `reqJniCall` is `ReqJniCall`, `PostRequest`
and `ResumeAfterJni`, the stub's read of the answer `ReadJniResult`. Error paths are actions:
a callback for another function (`OnCallbackMismatch`), one the manager does not wait for
(`OnCallbackNotWaiting`), a status the client does not expect (`ReturnUnexpected`) and
`pthread_create` failing (`MaxNative`).

Indeterminate values are modelled as such: the result slot of a frame is `Null` whenever the frame
is entered; `execStatus` may be any status if the transaction failed before it was set; freed
memory is `Null`. `free` is tracked with `freed` and `doubleFree`.

Binder, `Parcel` and the POSIX semaphores are not in the repository. They are modelled from their
use: a transaction is synchronous, is served by an idle thread of the pool and ends with one reply.

`BpWrapper` composes the client with `BnWrapper`. `top[t]` is the innermost `taintCall` of thread
`t` and `outer[c]` the one `c` is nested in; `Reentrant` says whether Java code run for a JNI
request may call native methods. `Local` maps both processes to `LocalCall`: a call is *in Java*
while the app executes a request, *answered* until its native thread has read the answer, and
*native* otherwise.

### Ext4Fixup

`disk` is the image. Each entry has a number and the high bit that marks it as not converted; each
superblock a group size, counts and the low bit that makes the filesystem unmountable. An inode is
a slot, `<<group, index>>`, that never changes; what changes is the number that stands for it.
`recurse_dir` is an explicit `stack` of frames, each with the directory's blocks as read at its
start; a step writes at most one block. `Stop` loses the tool's memory and keeps the disk: with
`Kill` before or after any write, without it only where the tool's own `-d` option stops it. `phase` is the tool's
local idea of where it is, `disk.magic` the persistent one. The sanity pass is the same code with
`no_write` set, as in the source; the `-d` test is reached in it too, so a stop is possible there.
`damage` selects images the sanity pass must refuse.
`TreeAssumption` says that the image is one of a tree: each directory has a block and a slot of its
own, can be reached from the root, and no entry says that a directory is a file (`e2fsck` has run).
`DamageAssumption` says that "notdir" does damage the image.

### Allocator

`bgs` is `aux_info.bgs`, with the bitmap as a set. A request runs through `pc`: `"partial"` is the
loop of `ext4_allocate_multiple_contiguous_blocks`, one turn per step, and `"attach"` the rest of
`do_inode_allocate_extents`. `owned` has the regions of all files so far. The region list is a
sequence. `alloc->list.last` always points to the first region after `allocate_blocks`, which is
why `reduce_allocation` and `reserve_oob_blocks` work on element 1. The overrun of the last group
is computed in u32 arithmetic. `block_size` decides two things: whether block 0 belongs to no group
(`FirstDataBlock`, for 1024 bytes), and how many extents a block holds. The test of the latter
(`extent.c:131`) compares with `block_size - 12/12`, as it has its parentheses in the wrong place
(`TooBig`). A list that passes it and does not fit runs over the end of the block (`OverrunExtentBlock`),
behind which nothing is said. A list that does not pass it is dropped with its blocks (`FileTooBig`).

### JNI marshalling

Every one of the stubs of `JniRemote.cpp` and of the `call*` functions of `BpWrapper.cpp` is an
operator named after it. A stub is a record of the function code it sends, the fields it writes
(value, offset, length, and whether it is copied or cast), the size of its block, the size it
announces, and the fields it takes out of the answer; a handler is one of the function of Dalvik it
calls, the fields it reads, and its answer. `Wire` says what is found in a block at an offset: the
last field written over it, or junk. Families that the source makes with macros are operators with
the type as parameter. Names and arrays have the length `n`. `Get<Type>ArrayElements` is what is left of
its macro: the comment that begins at `BpWrapper.cpp:1392` has its lines joined by the backslashes and goes on
to the end of the macro, so that the elements, their taints and `size += 8` are not compiled.

A method is called with a signature, a sequence of parameters with their width, the width they are
passed with, and the letters that `getNumParams` and `PARAMS_FROM_ARGS` count for them. These have no case for
`F` and count the letters of class names as well. The `...` and `va_list` variants take a word or two for each
letter out of the variadic arguments, which the caller has placed by the parameters' widths; the array
variants copy a jvalue for each letter. So a parameter may arrive although the letters are wrong, for example
the one of `(Ljava/lang/String;)V`, if what is misread comes behind it. Class names with the letters of
wide types (`D`, `J`) are not among the signatures of the run.

`gNativeInterface` is the function table of the environment: from it and the `switch` of
`handleJNIRequest` (`Handlers`) `Calls` gets every function with its stub and the handler its code selects.
`Marshal` makes these calls one after another, with the members `size`, `taintsize` and
`callbackdata`, which a handler may leave as the last one set them.

The layout of many calls does not agree, and the properties say for which: `LosesArguments`,
`LosesResult`, `OverrunsRequest` and `OverrunsAnswer` name them, with the condition on `n`, and the
properties are equivalences. A call that is mended, or another one that breaks, makes them fail.

### Service and Registry

`Service` has one app thread, the observer's thread and the service's process. `remote` is the
service the proxy sends to: the first one, for ever, as `restartService` stores what it finds in
the member `wrapper`, which nothing sends to. A transaction with a dead service leaves the
references indeterminate. A call waits for `serviceAlive` before `TAINT_CALL`, and in its middle before the
`CALLBACK` with an answer (`doCallbackTransaction`). A service that dies while the dispatcher is still being
initialised is looked up by a name that has not been set: an uninitialised pointer, with which the app ends
or goes on looking (`LooksUpNameless`). Each call uses `Registry`: the lists of the manager, searched from their
head as in the source. Memory is a small set of addresses: the block of an answer is free when
the next request is made, so that a pointer into it may be the address of something else.
`handedBack` records what was found for the last release and what it should have been. Elements released
with a reference that is not in the list end the process (`ReleasesUnlisted`: `JniRemote.cpp:3492` reads through
the null pointer it got). `Get<Type>ArrayElements` registers whatever the answer holds, as nothing is sent in it
(`GetElementsOfType`).

### fatblock and libublock

`Import` reads entry by entry; what an entry is, whether its name can be converted and whether it
can be read is chosen freely. Items are a heap of records, so that one freed twice is in the list
of free items twice. A name without a dot is copied at any length: one longer than the name's 11 characters
goes into the fields behind it, which are set later, and one longer than the item into the heap (`OverrunHeap`),
behind which nothing is said. `truth` is what was read, against which the tables are compared.

`FatRead` starts with the extents of an import without errors. A read takes a step for each
extent, and two for a file: the check of its time, and the read through the pool. Between them a
file may be written, replaced or removed. An element of the buffer is
`<<owner, version, offset>>`, so that a wrong file, an old content and a wrong place are told apart.
`FdPool` has the pointers of the ring; `Ring` reads off the sequence that `LruPool` is about.

`Ublock` has the two loops as places of the process, and the first request, which is read outside
of them. Lengths are counted in units. Values that are not assigned (`fails`, the length of an
answer to a refused request) are taken from `Garbage`. No handler looks at the size of the buffer it writes
to: a read of more than the buffer, or a second `INIT` with a larger one, overruns it (`OverrunBuffer`), behind
which nothing is said. `FatBlock` puts the parts together:
`read_callback` is `StartRead`, the steps of `FatRead` and `FinishRead`; `signal_handler` is
possible everywhere and ends the process after cleaning up twice. `set_ums_file` is two steps: the name is
in the stream's buffer until the file is closed, and a signal in between has `exit` write it after both cleanups.
It may also fail to open the file, which `main` ignores; a file that could be opened is assumed to open again
in `clear_ums_file`.

## Runs

Runs that pass:

| run | instance | shows |
| --- | --- | --- |
| `server` | 2 app threads, one with two calls, 2 binder threads, 2 functions, 1 JNI request per call | with a client that keeps to the protocol every stub gets its own answer, nothing is refused, and the unlocked mailbox has one user at a time |
| `client_sequential` | 1 app thread, 2 calls, 2 JNI requests each, not re-entrant | client and service implement `LocalCall`; native threads end |
| `client_reentrant` | 1 app thread, calls may nest | no request is executed twice, a block is freed twice exactly if a nested call has made a request and the outer one goes on, the app gets control back |
| `client_threads` | 2 app threads, 1 binder thread | a call reported as finished has finished, each mailbox has one user at a time although the members are mixed up, and every call returns although callbacks may be refused and the pool is smaller than the number of callers |
| `marshal` | every JNI function after every other, with 0, 1, 3 and 4 characters or elements, and methods of 12 signatures | which calls reach their function, with their arguments, bring back their result, stay in their blocks and free them: all but those named |
| `service` | 3 libraries, one broken, 2 deaths, 2 strings or arrays | references of a dead service never reach another one, what is released is what was got, a call that waits for the service, at its start or with an answer, goes on |
| `fixup_bail` | 3 directories, the root with one block, 3 groups, 4 runs, stops at `-d` points, damaged images | descriptors right, nothing mountable half converted, damaged images untouched |
| `fixup_kill` | the same tree with two blocks for the root, stops between any two writes | numbers can always be told apart, conversion is bottom up, entries, superblocks and bitmaps end up right, `-n` writes nothing, reruns get the filesystem fixed |
| `alloc` | 3 to 5 groups of 7 blocks, any size of the last group, three block sizes, files of 1, 3 and 10 blocks | counters and bitmap agree, no block twice, none behind the end but in a group cut within its header, extents are the file and overrun their block only if there are more groups than it holds, every allocation returns or has come to a group of its header's size |
| `import` | trees of 5 entries and 3 levels, 4 clusters, sizes up to behind 2^32 (here 8) | extents and FAT agree, items are in one list, tables are the tree; every crash has one of the three known causes, every overrun of the heap a name longer than an item |
| `fatblock` | 3 files, a pool of 2, reads within and across extents, one change of a file, signals, failing control device | what is served is what was imported and where, the pool is least recently used, every exit cleans up but for the two cases named, a noticed change ends the program |

`TypeOK` of each module is part of `IInv` in `server` and `alloc`; it can be added to every other configuration
as an invariant and holds there.

One run shows that the code does not do what a comment of it says (the finding of `PROJECT.json`
quotes it): `fixup_counts`, killed between superblock and descriptors, after which the free counts are never
corrected.

### Other disagreements seen while modelling

No run is kept for these; each is found by changing a configuration as said.

* The result of a method is stored through a pointer to a local variable of the `TAINT_CALL` branch
  (`BnWrapper.cpp:135`, marked "TODO: put result on stack otherwise ... ohoh"). After a JNI request that
  frame is left and another call may use it: `MCServer.cfg` with the invariant `ResultIsOwn`.
* Two app threads overwrite each other's `cbdata` (`BpWrapper.cpp:2224`), and the service refuses a
  callback with "Function mismatch! Different JNI calls interfering.": `MCClientThreads.cfg` with the
  invariant `NoInterference`.
* A nested native call leaves the manager `FINISHED`; the answer to the outer request is refused
  (`ExecutionManager.cpp:152`) and its native thread waits for ever: `MCClientReentrant.cfg` with
  the property `NativeEnds`.
* `pthread_create` fails (`ExecutionManager.cpp:84`) and `startExec` waits for a reply nobody posts:
  `MCClientThreads.cfg` with `MaxNative = 1`; TLC reports a deadlock, and with `CHECK_DEADLOCK FALSE`
  that `CallReturns` fails.
* The outer of two nested calls takes the nested one's `FINISHED` for its own:
  `MCClientReentrant.cfg` with the invariant `FinishedMeansDone`.
* A call that is given up (a refused callback) leaves its native thread behind. The next call of the
  same thread id uses the same manager, and the thread left behind may take the `mJniReady` that was
  posted for the new call: it ends, the new call is answered `FINISHED` and has not ended. `MCClientThreads.cfg` with two calls of `t2` and the
  invariant `FinishedMeansDone`; this is why the theorem about it needs one call per thread.
* Killed between the magic number and the low bit, a mountable filesystem is marked
  (`ext4fixup.c:181`, against the comment at line 212): `MCFixupKill.cfg` with the invariant
  `MountableIsConsistent`.
* The first region of a spread file has one block, and the list of the file is lost
  (`allocate.c:487`): `MCAllocator.cfg` with `BlocksPerGroup = 6`, `Sizes = {1, 3}`; the invariant
  `ExtentsCoverFile` fails.

These are in the model as the code has them, and the properties say so:

* A nested call with a JNI request replaces `replydata`, which is then freed twice
  (`BpWrapper.cpp:2134`): `FreedTwiceIfNested`.
* A group that has its header and no other block stays "completely empty" (`allocate.c:440`, `474`)
  when its 0 blocks are allocated, and the allocation never returns: `AllocationEnds`.
* With blocks of 1024 bytes, blocks behind the end are handed out (`ext4_utils.c:109`,
  `allocate.c:317`): the size of the last group is computed without the first data
  block, so that a group cut within its header is kept: `InsideFilesystem`.
* An extent block takes more extents than it holds (`extent.c:131`): `HeapIntact`.
* Signatures are read letter by letter, without `F` and with the letters of class names:
  `ArgumentsArrive`, `StaysInBlocks`. No elements are sent by `Get<Type>ArrayElements`: `ResultArrives`, `BlocksFreedOnce`.
* A name without a dot is copied at any length (`import.c:75`): `CrashesExplained`.
* A signal between `fprintf` and `fclose` in `set_ums_file` leaves the device's name in the mass storage
  file, and so does a failed assertion (`ublock.c:255`) while the device runs: `CleanedUp`.
* Three stubs send the code of another function (`CallStaticDoubleMethod`, `SetStaticObjectField`,
  `GetStringUTFRegion`) and one a code without handler (`GetDirectBufferCapacity`): `FunctionReached`.
  Such a code frees the request's block twice (`BpWrapper.cpp:2129` and `2134`): `BlocksFreedOnce`.
* The layouts that do not agree: `LosesArguments`, `LosesResult`, `OverrunsRequest`, `OverrunsAnswer`.
* `file_read` seeks to the length of the part instead of its offset (`read.c:107`): `ReadsAreRight`.
* A descriptor of the pool may be of a file that has been replaced; as the time is checked by the
  path, that is noticed unless the time is the same: `ServedIsImported`.
* An entry that was skipped leaves its freed item in the variable, and a hidden entry behind it frees
  it again (`import.c:288`); a child that failed is listed with an item of any content; an empty
  directory without space ends the process (`import.c:345`): `CrashesExplained`, `TablesAreTree`.
* `ublock_init` ignores the result of its loop and `ublock_run` returns 0 whatever happened, and
  a loop ends at the first failure, so that `MAX_FAILURES` never stops anything. `fails` is never
  initialised, and a failing `ublock_init` frees buffers that were never assigned (`ublock.c:407`).
* `!ub_ctx->flags & CTX_INITED` (`ublock.c:382`) lets a device through that was made ready first; it has no
  index, and `main` ends.
* "Taintgrind Wrapper is alive again." (`BpWrapper.cpp:2257`), but the proxy stays with the dead
  service, and every further call fails; a second death is not observed: `WaitEnds`.
* `ADD_LIB` reads through the handle before it tests it (`BnWrapper.cpp:47`): a library that cannot
  be opened ends the service.
* `GetStringUTFChars` returns a pointer into a block that is freed with its transaction: excepted
  in `HandsBackOwn`.

### Bounds, and why they are enough

*Wrapper.* Two threads are the smallest number that can interfere; the second call of one thread
reuses its manager, two function codes make a mix-up visible, two requests per call make an old
answer differ from a new one. More binder threads than app threads are never busy. The proofs lift
the bounds of `server`.

*Ext4Fixup.* The tree has a directory of two blocks (written in part), one whose entry has no
type (the tool reads the inode), and three levels (a stop between child and parent). In `fixup_bail` the root has
one block, as `-d` stops behind the last block of the root only then. Of the three
groups two have a superblock, so that a backup differs from the primary and a group has none. Group
sizes of 3 and 4 make old and new numbers differ in every group but the first. Four executions are two
stops, a dry run and the run that completes; `MaxRuns` makes the last run a complete one.

*Allocator.* Groups of seven blocks with three or five header blocks leave two to four data blocks:
a file of ten blocks needs four or five regions, the first numbers that do not fit in the inode. `Lens`
sweeps over all sizes of the last group, that of its header alone included, for which an allocation need
not end. `MaxRegions` only bounds the empty regions that such a request collects.
Of the three block sizes (in units of which a kilobyte has 10 and an extent 2) one is more than a kilobyte and two
are not, and an extent block holds six extents, four, or one, so that lists fit, overrun the block and are refused.
The modulus `U32` need not be 2^32: it only has to be larger than
any length. The proofs lift these bounds for the properties they cover.

*Marshal.* Lengths of 0, 1, 3 and 4 end at a word and do not, for elements of every width; four
element types have sizes that are right, too small and too large in the code. As all functions
follow each other in all orders, every value a member can be left with is met. The signatures have a letter for
each parameter, too many, too few, and as many by chance, with wide parameters in front of and behind the others.

*Service.* With two deaths the service that was started for a dead one dies too. The table of three
entries holds a library, its function and one more; three addresses and two gets let an answer be
placed where an older one was.

*Import.* Five entries make a skipped entry, a hidden one behind it, and two levels below; four
clusters run out at every point of the import. Of the names one is refused, one goes over the name's field and one over
the item. A size of 13 with `U32 = 8` is one that wraps around.

*FatBlock.* Three files and two descriptors force an eviction and a reopening. The reads lie in
the FAT, in one file with offset and length equal and different, across two files, across
`UINT32_MAX` and into the root directory's table. One change suffices: what is served after it differs from what was
imported. `KernelBufs` has a value below and one above `MAX_BUF`, and the reads fit in both or only in the larger
buffer; both hold an answer without data, which the code takes for granted of the kernel. `Garbage` has a length that fits
and one that does not.

Symmetry is used in `server` for the binder threads, which no property tells apart.

### Fairness

Fairness is stated in `BpWrapper`, `Ext4Fixup`, `Allocator`, `Service` and `FatBlock`; the other
specifications have only safety properties. In `BpWrapper` it is weak fairness for every thread of both processes: the scheduler of the kernel runs all of them, and
a blocked semaphore is a disabled action. Fairness is per thread, not per action: nothing is assumed
about which request comes first. Native code ends, as `MaxJni` bounds its requests. For `Ext4Fixup`
the tool runs until it stops, and whoever saw it stop runs it again without `-n`; the number of
stops is bounded, as no tool survives being stopped always. For `Allocator` the process runs until
an allocation has returned. In `FatBlock` the process takes the steps it can take by itself; nothing is
assumed of the kernel, which need not send a request, nor of signals. In `Service` the app's
thread, the observer's thread and a started process go on; deaths, requests of the app and the
work of a native method are not fair.

## Proofs

Checked by TLAPS for every value of the constants, under the named assumptions of the modules; what
a theorem assumes beyond them is in its statement and said here. Each proof has the same form: an
inductive invariant, lemmas about the operators, a lemma per action, and the temporal theorem.

**`WrapperServerProofs`** assumes that each call has a thread (`ThreadAssumption`), that the bounds
are natural numbers and that `Null` is no other value. `IInv` is a token argument: for each thread
id one token is with the app thread, in one of the two semaphores, with the one handler of the
thread's transaction, or with the one native thread that runs. `RunningInv`, `WaitingInv` and
`EndedInv` say what semaphores, handler and transaction look like for each position of the native
thread, `MailboxInv` and `InvokeInv` what the manager holds then. The safety properties alone are
not inductive: that a stub reads its own answer depends on who wrote the mailbox last, which
depends on where the token was. The proof has a lemma for each action and, under it, a step for
each part of the invariant the action disturbs. Theorems: `TypeCorrect`, `Invariance`,
`AnswersAreOwn`, `NothingRefused`, `ManagerExclusive`.

**`BpWrapperProofs`** is about the client as it is, whose threads share the members of one object
and whose calls may be given up with a native thread still waiting. It has four layers.

* `TokenInv` needs no assumption on the app. Several native threads of one thread id may exist, but
  only one of them runs, and it, a semaphore, a handler or the app has the token: whatever the
  client mixes up, it sends one transaction at a time per thread. Theorems: `TypesAlways`,
  `MailboxGuarded`.
* `PendingInv`, for one app thread (`SingleThreaded`), nested calls included: at most one request is
  made and not executed, and what carries the token (mailbox, reply or `replydata`) has its
  arguments. Nested calls can refuse the answer of an outer request, but cannot have a request
  executed again. Theorem: `ExecutedOnceAlways`.
* `FlatInv`, for any number of threads whose calls do not nest (`Reentrant = FALSE`): until a call
  of a thread id is given up, only the call in progress has a native thread, so that a `FINISHED` is
  its own. Theorems: `FlatAlways`, and `FinishedMeansDoneAlways` for threads with one call each. The
  latter is false with two calls per thread (see the disagreements above), and for nested ones.
* `SequentialInv`, for one thread whose calls do not nest, adds `CallInv`, which says for each place
  of client, handler and native thread what members, mailbox, transaction and result slot hold, and
  `FreedInv` about the blocks. From it `WrapperIsTransparent`, the
  refinement of `LocalCall`: every step of either process is a step of the local call or a stutter.
  Both conditions are needed: with two threads, or with nested calls, TLC shows how an answer or a
  result gets to the wrong call.

  The attempt to prove the refinement found that the mapping of `phase` was a `CASE` whose guards
  overlapped, which TLC resolves by their order and the logic leaves open; it is now nested `IF`s.

**`Ext4FixupProofs`** holds for every tree that satisfies `TreeAssumption`, all group sizes, any
number of runs, and a stop between any two writes. `FixupInv` says, for an image that is not
damaged, by which group size each entry counts, given its high bit and the magic number
(`NumbersCount`); that below an updated entry all are updated (`BottomUp`); and what the frames of
`recurse_dir` have read and have still to do. The last part is what makes it inductive: a write of
a block puts back entries that were read long before, and a completed pass means that all of the
tree was visited. The latter is an induction over the tree, done with the set of directories that
are clean and `TreeAssumption`, and over the stack with the least-element theorem for natural numbers.
`DamagedInv` says that the sanity pass does not get past the damage. `BailInv` relates the low bit
and the descriptors to the phase, and holds only if the tool stops where `-d` says (`Kill = FALSE`):
with `Kill` the corresponding properties are false, as `fixup_counts` and the list above show.
Theorems: `ResumableAlways`, `ImageFixedAlways`, `DamagedIsUntouchedAlways`, `DryRunsWriteNothing`;
with `Kill = FALSE`, `MountableIsConsistentAlways` and `DescriptorsFixedAlways`.

**`AllocatorProofs`** assumes `GeometryAssumption`: a full header fits in a group, lengths and
file sizes are positive, u32 arithmetic is wide enough for the length plus a group. `IInv` has four parts. `GroupInv`: the three
descriptions of a group's free blocks agree. `NoBlockTwice`: all regions handed out are apart and
below `first_free_block`. Giving a block back keeps this only if the region it is taken from ends
at `first_free_block`, although regions of other groups were taken since: `TailInv` says so, because
the groups of a spread request are full until it ends. And the blocks given back must exist:
`EmptyInv` says that no empty region is ever attached, since a request that got one never ends.
Lemmas about `reserve_blocks`, `free_blocks` and `init_bg` come first, then one lemma per action;
the two that attach a list share `PiecesApart`, about regions cut out of others. Theorems:
`Invariance`, `BitmapMatchesCounters`, `BlocksHandedOutOnce`.

`FilesAreSound` says what a file has got, for every block size, and assumes `Roomy`: no complete group with a
single data block. It is needed, as the list of disagreements shows: otherwise `reduce_allocation`
takes a list whose first region has one block for an empty one. The instance of `alloc` satisfies
`Roomy`. `FInv` adds to `IInv`: a group that is in use or has free blocks ends inside the filesystem,
unless its header does not,
and one that is not the last is complete until its first block is taken (`EndInv`); a group that has
given a block away is in use (`UsedInv`); and the blocks collected for a request, together with those
still wanted, are the request and the additional one, the first region being longer than one block
unless the request is bound to fail (`SizeInv`). That the extents overrun their block only in a filesystem
of more groups than it holds extents follows from the groups of a list being different. The blocks of a list of regions are counted with the
theorems on finite sets; `NoBlockTwice` is what makes the counts add up.

**`ServiceProofs`**. `ServiceInv`: the service the proxy sends to never comes back once it is dead
(`OneLife`), and while it lives each reference the app has is the entry of its library
(`ReferencesAreEntries`). Theorem `ReferencesHoldAlways`. `RegistryInv`
says where in the lists the entry of each string and array is that has not been released: not only
that it is there, but what is in front of it, as the search starts at the head and addresses may
repeat. Theorem `HandsBackOwnAlways`.

**`FatFsProofs`** has no theorem of its own to list: it says what `fs_add_extent`, `fs_alloc_extent` and
the chain of clusters do to extents and FAT (`FsInv`), about rounding, and what remains the same when an
extent is added. Import and reads use it with different owners of extents. `Induction` is mathematical
induction for a *set* of natural numbers, got from the theorem that a non-empty set has a least element;
it is how the recursive functions of the model are reasoned about.

**`ImportProofs`** holds for every geometry, tree and failure.

* `ImportInv`: extents are apart and in front of the next free cluster, the FAT chains their clusters
  and has no other entries (`FsInv`), and every frame of the import is of a directory with a natural
  number of entries (`IsStack`). Theorem `ClustersAccountedAlways`.
* `ItemsInv`, until an item is freed twice. What the lists of items look like cannot be said with the
  pointers alone. `Handled` says that there are ghosts: each item has a list (`lst`: that of the free
  items, that of a directory being read, or none) and a rank in it (`rk`, its distance to the end), a
  pointer leads to the next lower rank, and no two items of a list share one (`Shape`). Each operation
  on items (`alloc_item`, `free_item`, `free_items`, listing an entry, entering and leaving a directory)
  has a lemma that gives the ghosts afterwards.
* `Contents` says what is in the lists: the items of a directory are exactly its entries so far, in
  their order, without the one a child is being imported into; and an item points to the table of its
  directory, unless an import failed. `Tables` says that the tables of the directories that were left
  list exactly their entries and that their ".." lead up. The step from one to the other is the loop over
  the items at the end of `import_dir`, as long as the directory: `IsRun` names its states, and that each
  turn takes the item with the highest rank that is left and puts its row in front of the rows so far is
  an induction over the turns. A crash in the loop happens only with an item whose pointer was never set,
  which is an item of a child of this directory whose import failed.
* Theorems `ItemsApartAlways`, `TablesAreTreeAlways`, `CrashesExplainedAlways`. The ghosts are
  existentially quantified functions over an unbounded heap, so TLC cannot evaluate `ItemsInv`; it
  checks the three properties that follow from it.

**`FatBlockProofs`**. `CleanupInv` says for each place of `main` what is set and not yet cleaned
up, and that the file names the device only from the end of `set_ums_file` on; with it `CleanedUpAlways` says
what each way out leaves behind, wherever the signal came or the assertion failed.

`ReadInv` is about reads and the pool. Its parts:

* `PoolInv`: there is a sequence of files that the ring of pointers goes through forwards and backwards
  (`IsPool`), and the files in it are those with an open descriptor. `Ring`, which walks the pointers,
  computes it (an induction over the walk). Unlinking, linking at the head and evicting the tail are
  each shown to do to that sequence what `LruPool` says, so that `PoolIsLruAlways` is a refinement for
  every number of files and every size of the pool.
* `DiskTypes`, `FdsApart`, `Imports`: paths have inodes of their own; a descriptor of the pool is never
  of another file's inode, although paths are replaced and removed under it; and unless there is an
  excuse (a change that keeps the time, or one between check and read) a file with the time of its
  import has the imported content at its path and behind its descriptor. Theorem `ServedIsImportedAlways`.
* `RdInv`: the buffer has, for each extent that was handled, the part of the device it should, but for
  the wrong seek in a file (`BufferIs`), and an extent that is not yet handled and meets the read is behind the last one
  (`PartChecked`). That the extents are apart and all of them are met in the order of the list comes from `FatFsProofs`.
  Theorem `ReadsAreRightAlways`, for every start and length of a read.

The proofs changed the model in a few places, none of which changes what it does. The length of `Ring` was
a `CHOOSE` with several possible values when the walk went round the ring more than once, which TLC resolves by taking
the smallest: the walk now stays at the head when it is back. `fs_find_extent` and the loop of `import_dir`
were split into named parts (`Meets`, `PartOf`; `Row`, `Turn`, `TableLoop`) that lemmas can be about,
`LruPool` removes a file without `SelectSeq`, and `ReadAssumption` says that `Order` is a sequence of files.

### Only model-checked

* All liveness properties: TLAPS here has no support for fairness.
* The properties of `Marshal`: they are statements about the finite list of JNI functions, which
  TLC evaluates completely but for the lengths; a proof would be a table of some 200 layouts
  evaluated once more.
* `FileIsSound` for geometries that are not `Roomy`, for which it is false.
* `FreedTwiceIfNested`.
* The properties that hold for one thread or without nesting only (`BpWrapper`), and those that need the
  tool to stop at `-d` (`Ext4Fixup`), are proved under these conditions; beyond them TLC has counterexamples.
* The induction theorems of the library take an operator as parameter, which the provers here cannot
  instantiate. Inductions are therefore over sets (`Induction`) or arguments about a least
  counterexample (`Ext4FixupProofs`).

## Not modelled

* Values of taints (their bytes are in the blocks, what they say is not), the `isCopy` flag, the
  list in which signatures are kept (a method is called with the one it was looked up by; an id that was not
  looked up is not used), and the early return of the release functions for `JNI_COMMIT`.
* What a process does after it has overrun a block of the heap.
* The map of `ThreadManager`, which several threads use without a lock: a race on it may have any
  outcome, and nothing could be said after it.
* Indirect blocks (`indirect.c`), inode allocation, directory and inode contents of an image
  (`make_ext4fs.c`, `contents.c`), superblocks and sparse output of `ext4_utils.c`.
* Names longer than a buffer on the stack of `import.c`, `fdpool_close`, which nobody calls, and the
  bytes of a FAT directory entry (`fat.c`).
* libpagemap and the measuring tools, `su`, `sound` and the tests: one thread that reads a file of
  the kernel, or calls the system, and prints.
* I/O errors other than those named, and `malloc` failing.

## Plan

1. *Done*: the call protocol of the wrapper and its proof; `ext4fixup`; the block allocator and its
   proof; JNI marshalling; the service's life, its tables and registries; fatblock and libublock.
2. *Done*: proofs about the client and its refinement of `LocalCall`, `ext4fixup`, the service and
   its registries, the clusters of an import, the exits of fatblock.
3. *Done*: proofs about the descriptor pool's refinement of `LruPool`, what reads serve, the items and
   tables of an import, and the blocks and extents of a file.
4. `Indirect`: `indirect.c` with the region-list operations only it uses; inode allocation.
