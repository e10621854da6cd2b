# TLA+ models of archivefs

archivefs is a FUSE filesystem (libfuse 2.8, high-level API). It mounts ZIP, ISO 9660, TAR and TAR+GZIP archives as directory trees you can read and write. When the mount is released, it writes the edits back into the archive. This directory holds TLA+ models of its C++ sources and the TLC configurations that check them.

## The system

| Part | Source | State | Operations |
|---|---|---|---|
| FUSE callback layer | `src/src/archivefs.cpp` | `FusePrivate` (options, mount mode), `FileSystemS` (archive name → `FileSystem`), the `FileHandle` (`fs`, `node`) pairs handed to the host | `getattr`, `statfs`, `mknod`, `create`, `mkdir`, `rename`, `open`, `read`, `write`, `truncate`, `unlink`, `rmdir`, `release`, `opendir`, `readdir`, `releasedir`, `access`, `utimens`, `chmod`, `destroy` |
| FileSystem (the tree of one archive) | `src/src/filesystem.cpp` | `file_map` (an ordered map, path → node, under the recursive mutex `fmap_mux`), root node, `removed_nodes` (tombstones), `changed`, `write_support`, the driver | `find`, `append`, `take`, `mknod`, `create`, `mkdir`, `rename`, `repath`, `remove`, `open`, `close`, `read`, `write`, `truncate`, `fillInBuffer`, `access`, the destructor (the save) |
| FileNode | `src/src/filenode.cpp` | `type`, `pathname`, `original_pathname`, `parent`, `children`, `st_nlink`, `ref_cnt`, `changed`, `buffer`, `data` (the archive locator), a rwlock | `addChild`, `setSize` |
| Buffer | `src/src/buffer.hpp`, `membuffer.cpp`, `filebuffer.hpp` | form (memory chunks, or an unlinked scratch file), length | `read`, `write` (promotes memory to file past `MEM_LIMIT`), `truncate`, `release` |
| Drivers | `src/drivers/zipdriver.cpp`, `tardriver.cpp`, `tgzdriver.cpp`, `isodriver.cpp` | libzip, libtar or libisofs handles | `buildFileSystem`, `open`, `read`, `close`, `saveArchive` |
| Driver registry | `src/src/drivers.cpp` | loaded plugins and their `ArchiveType`s (`write_support`: ZIP and ISO only) | `GET_TYPE`, `findFileExt`, `TYPE_BY_EXT`, `generateNewArchiveName` |
| Command line | `main`, `initialize` in `archivefs.cpp` | options | parsing and scanning only |

How the parts interact:

1. A FUSE worker thread calls a handler with a path.
2. `getFile` finds the archive and the `FileNode`.
3. The handler calls the `FileSystem` method.
4. For entry content, the method calls the driver (`open`, `read`, `close`).

A node's content is read through the driver until the node has a `Buffer`. Writes and truncates go to the buffer. The tree changes only in memory. When the mount is released, `~FileSystem` calls the driver's `saveArchive`, which walks `file_map` and the tombstones and rewrites the container.

The behaviours that are hard to test:

- **Concurrent callbacks.** libfuse runs the handlers on several threads.
  - `ref_cnt` and the "is there a buffer?" test in `open` run outside any lock.
- **Nested locking.** `ZipDriver::open` takes the node's write lock, which `FileSystem::truncate` already holds.
- **Recursive tree surgery.**
  - `rename` removes the target subtree and then repaths every descendant.
  - `rmdir` removes a non-empty directory, because neither the kernel nor the handler checks that it is empty.
- **Order-dependent save.**
  - ZIP applies renames and adds in key order against names that still exist.
  - ISO looks up tombstones and renames by path.
- **Boundary arithmetic.** MemBuffer chunks, `MEM_LIMIT` promotion, the `PATH_MAX` and `ext_low[10]` copies.

## Modules

| Module | Models | MC module |
|---|---|---|
| `FileTree.tla` | `FileSystem`, `FileNode`, the FUSE handlers on paths inside one mounted archive, each driver's `open`, `close` and build loop | `MC_FileTree.tla` |
| `ZipSave.tla` (extends `FileTree`) | `ZipDriver::saveArchive` and the `zip_close` in `~ZipDriver`, over a model of libzip's entry table | `MC_ZipSave.tla` |
| `IsoSave.tla` (extends `FileTree`) | `IsoDriver::saveArchive`, over a path-addressed model of the libisofs `IsoImage` | `MC_IsoSave.tla` |
| `Buffer.tla` | one `Buffer` at byte level: `MemBuffer` chunks, `FileBuffer`, promotion past `MEM_LIMIT` | `MC_Buffer.tla` |
| `Namespace.tla` | the abstract promise of a mount: a function from paths to none, file or directory, changed only by adding, dropping subtrees and moving | instantiated by `FileTree` |
| `DriverRegistry.tla` | `drivers.cpp`: `LOAD_STANDARD_DRIVERS`, `GET_TYPE`, `findFileExt`, `TYPE_BY_EXT`, `TYPE_BY_MIME`, `generateNewArchiveName`, `UNLOAD_DRIVERS`, and the type lookups of `archivefs_mkdir` and the saves | `MC_DriverRegistry.tla` |
| `Mounts.tla` | folder mode's mount map: `FileSystemS`, `initialize`'s folder scan, `getFile`'s lazy creation, and the handlers that make, move, remove and hold whole archives (`mkdir`, `rename`, `rmdir` of an archive root, `open`, `write`, `release`, `destroy`) | `MC_Mounts.tla` |
| `NodeOpenRace.tla` | one file node under concurrent worker threads: `FileSystem::open`, `read`, `write`, `truncate`, `close`, `fillInBuffer` and the ZIP and ISO drivers' `open`, `read`, `close`, statement by statement, with the node's rwlock | `MC_NodeOpenRace.tla` |

### `FileTree.tla`: one mounted archive

How the model's elements correspond to the code:

- **Nodes.** A node is an integer from `Nodes`. The root is the model value `Root`.
- **Paths.** A path is a sequence of `Names` (`"a/b"` is `<<a, b>>`).
- **Variables.** They are the fields of the same names:
  - `fmap` is `file_map`.
  - `path`, `parent`, `children`, `nlink`, `orig` (`original_pathname`), `data`, `changed`, `refcnt`, `buf` (the form of `buffer`: `"none"`, `"mem"` or `"file"`).
  - `status` records whether the node is unallocated, in the tree (`"live"`), a tombstone in `removed_nodes` (`"tomb"`), or deleted.
- **Driver and host state.**
  - `drvOpen` is the ISO file source's open state.
  - `rdH`, `wrH` and `dirH` count the `FileHandle`s the host holds from `open` (read or write) and from `opendir`.
  - `acked` records that a write returned a byte count to the host.

The actions come in three groups:

- **`BuildEntry`** is one iteration of a driver's `buildFileSystem` loop. It finds the node for the entry, or appends it, and `append` creates every missing ancestor as an implicit directory. For ISO, `IsoBuildDir` computes the order in which `buildDir` hands entries over. `buildDir` recurses into a directory before it appends the directory itself, so the subtree comes first and the directory is then found and given its data.
- **`Fs*`** are the `FileSystem` methods: `FsMknod`, `FsCreate`, `FsMkdir`, `FsRemove`, `FsRename` (with `Moved` and the recursive `NewPath` for `repath`), `FsOpen`, `FsClose`, `FsWrite`, `FsTruncate`.
  - Each is the whole method, including its trailing `changed = true` and the `fillInBuffer` it calls.
  - The drivers' `open` and `close` are `ZipOpen`/`ZipClose`, `TarOpen`/`TarClose` and `IsoOpen`/`IsoClose`, dispatched by `DriverOpenBuf`, `DriverOpenSrc`, `DriverCloseBuf` and `DriverCloseSrc`:
    - ZIP and TGZ read the entry into a new buffer, and close releases a memory buffer.
    - ISO opens and closes its file source.
    - Uncompressed TAR does nothing.
- **The handlers** `Mknod`, `Create`, `Mkdir`, `Unlink`, `Rmdir`, `Rename`, `Open`, `Release`, `Write`, `Truncate`, `Opendir`, `Releasedir`, `Unmount`.
  - Each calls its `Fs*` method under the guards that the kernel and libfuse enforce before the call arrives:
    - the parent exists and is a directory;
    - a new name is free;
    - a rename does not move a node into its own subtree or onto an ancestor, and does not swap a file for a directory;
    - libfuse hides an open file on unlink and on rename-over instead of removing it. It does not do this for a directory held by `opendir`.
  - Access checks that fail change nothing and are not steps.
  - `Open` ignores the positive codes of `FileSystem::open`, as the handler does.
  - `Write` hands the result of `FileSystem::write` to the host, as the handler does.
  - `Unmount` is `~FileSystem`. For a changed tree, unless `KeepTrash` is set, it first removes every root child whose name is in `TrashNames` (`removeTrash`, the names beginning with `.Trash`). The save itself is modelled in `ZipSave` and `IsoSave`.

Bounds, all constants named in the module:

- `MaxDepth`: the path depth.
- `Nodes`: the number of FileNodes.
- `MaxOpen`: handles of each kind per node.
- `MaxNlink`: a directory rename is allowed only while the target's `st_nlink` is below this. `st_nlink` only grows, because `take` never decrements it.
- `Forms`: the buffer forms `Buffer(size)` can produce. `{"mem"}` models files below `MEM_LIMIT`.

Each handler is one atomic step. This is the sequential semantics: what any single-threaded sequence of host calls does. The races between worker threads are left to the thread-level module in the plan.

`MC_FileTree.tla` gives three archives:

- `MC_Archive` has `a/b` (whose directory `a` has no entry and is created implicitly) and `b`.
- `MC_ArchiveFlat` has `b` only.
- `MC_ArchiveIso` is the image `{a/, a/b, b}` in `buildDir`'s order.

### `ZipSave.tla`: the ZIP save

The libzip archive is a sequence of entries, each with a name (path, and whether it is a directory), a content and a deleted mark:

- the content is a source entry `Orig(i)`, or a node buffer `Buf(n)` that the zip source callback reads in `zip_close`;
- `ZipAdd` and `ZipRename` do nothing when a non-deleted entry already has the name. This is libzip's `ZIP_ER_EXISTS`, and the code ignores the return value.

`Save` is one step after `Unmount`. It works as follows:

1. `DeleteTombs` deletes the tombstones by index.
2. `SaveWalk` visits `file_map` in key order (`MapOrder`, the `strcmp` order through `NameOrder`). `SaveNode` skips unchanged, unrenamed nodes, adds nodes without archive data, renames entries with an `original_pathname`, and replaces changed entries.
3. With `KeepOriginal`, `KeepWalk` instead copies every node to the `_edit` archive `zipNew`, and adds new files to `zipOld`, as the code does.

`Crashed` is a save in which a callback would read a node with no buffer. `Done` is a save that did not crash.

### `IsoSave.tla`: the ISO save

The image is a function from paths to an entry that is absent, a directory, or a file with a content. `IsoRemove` removes a subtree. `IsoSetName` renames inside the parent, and fails when a sibling already has the name. `IsoAdd` fails when the parent is missing or the name is taken.

`Save` works as follows:

1. It imports the source image.
2. `RemoveTombNodes` removes each tombstone by its current `pathname` (`TombPath`).
3. It walks `file_map` in key order.
4. `SaveNode` renames by `original_pathname`, then adds or replaces changed nodes by path.

### `Buffer.tla`: one content buffer

The state is the form, the chunk vector and `_length` of a `MemBuffer`, the bytes and `_length` of a `FileBuffer`, and a reference file that the same writes and truncates give under POSIX semantics.

- `Init` fills the buffer from an entry as `fillInBuffer` does.
- `Write` is `Buffer::write`. It moves to a `FileBuffer` when the write would end past `MEM_LIMIT` (`FlushBytes` is `flushToFile`).
- `Truncate` is `Buffer::truncate`.

The arithmetic is translated line by line from `membuffer.cpp`: `ChunksCount`, `ChunkNumber`, `ChunkOffset`, `WriteLoop`, `ReadLoop` and `MemTruncated`. That includes the code's choices:

- `_length = offset` after a write;
- `data + written` using only the last chunk's count;
- uninitialised new chunks (`Junk`, any byte);
- the `memset` of `CHUNK_SIZE - size` bytes (`TruncateOverruns` marks the process as crashed).

The bounds are `CHUNK_SIZE` 2, `MEM_LIMIT` 3, offsets and lengths up to 5, and bytes `{1, 2}`. These values reach aligned and unaligned writes, writes across chunks, promotion, and truncates that shrink and grow.

### `Namespace.tla` and the refinement

`Namespace` states what the mount shows of its names, with none of `FileSystem`'s nodes, keys, tombstones or repathing. Its actions are `Add(p, t)` (a path with any missing ancestors as directories), `Drop` (some paths, each with everything below it) and `Move(p, q)` (a subtree to a free path or over an entry of the same kind, whose own subtree goes). `FileTree` defines `NsView`, what `archivefs_getattr` reports for each path (`getFile` through `file_map`, then the node's type), and `NS == INSTANCE Namespace WITH ns <- NsView`. `NamespaceRefined == NS!NSpec` is checked as a property of the `zip_save` run: every step of the detailed model (mknod, mkdir, unlink, rmdir, rename, the build, the save) is a `Namespace` step or leaves the names alone. The mutant replaces `Subtree`, the walk `remove` uses, by one that stops at the node, and TLC finds the children that stay visible under a removed directory.

### `DriverRegistry.tla`: type detection and archive names

A host path is a sequence of atoms: `"/"`, `"."` and words. A word is a run of characters without `/` and `.`, and `WordLen` gives its length in characters. Since a word holds no dot, the atom-level searches find exactly the dots the C code finds. `CharLen` and `StrLen` give the byte length that the `strcpy` into `ext_low` copies.

The pure functions are translated from `drivers.cpp`:

- `DotBefore` and `FindFileExt` are `findFileExt`. The loop never tests the first character, and it returns NULL (0) when it reaches it.
- `TypeByExt` and `TypeByMime` are `TYPE_BY_EXT` and `TYPE_BY_MIME`: the first type over the drivers in load order, and each driver's types in push order.
- `GetType` is `GET_TYPE`. It tries the libmagic MIME type when the build has it. It then takes the suffix after the last dot, copies it into `ext_low[10]` (`Fits`), lowercases it and looks it up. It then does the same with a second search that starts at `ext - 2`. It returns the type and whether a copy ran past `ext_low`.
- `NewArchiveName` is `generateNewArchiveName`: the tag goes in before `find_last_of('.')` of the whole path.

The state is one daemon asked about one host file. `file` and `content` (the MIME type `magic_file` reports) are chosen in `Init`. `drivers` is the `DriversVector`. `last` is the latest lookup or save, and `crashed` records how the daemon died. The actions are:

- `LoadStandardDrivers`: any subset of the plugins loads, in any readdir order. With none loaded, `initialize` gives up.
- `GetTypeCall`: a `GET_TYPE`. A copy past `ext_low` is undefined behaviour, so the daemon either aborts (a fortified build) or goes on.
- `MkdirCall`: `archivefs_mkdir` outside every archive looks up the raw `findFileExt` suffix. With no dot, that is `TYPE_BY_EXT(NULL)`, a `strcmp` on NULL.
- `SaveCall`: the ISO save, or the ZIP save with `--keep-original`, of the archive just typed. It names its output with `generateNewArchiveName`. A path with no dot throws `out_of_range` inside `~FileSystem`.
- `UnloadDrivers`: `UNLOAD_DRIVERS` from `~FusePrivate`.

The reference is `RefFactory`, the rule as the spec states it. It tries the MIME type, then the lowercased extension after the last dot of the file's name, then the extension after the dot before that. `ByDot` finds the k-th dot from the end of the base name.

`MC_DriverRegistry.tla` builds 765 paths. Each has a folder (`/m`, `/m.m` or `/m.archives`) and a name of one to three dot-separated parts from `{"", a, ZIP, tar, gz, iso}`. These cover:

- dots in a directory name;
- names with no dot, and names that start or end with one;
- double extensions (`tar.gz`) and upper case;
- suffixes of 9 and 10 bytes (`archives/a`, `archives/ZIP`), around the `ext_low` bound.

The three plugins load in every subset and order. The deadlock check is off, because a daemon that crashed, or whose `initialize` found no driver, takes no more steps.

### `NodeOpenRace.tla`: worker threads on one node

`fuse_main` runs the handlers on a pool of threads (no `-s` is passed), so two hosts can open, read, write, truncate and release the same archived file at once. The model has one node and the threads `Threads` (two in the runs):

- **Per thread:** `pc` (the statement), `stack` (return labels of the driver and `fillInBuffer` calls), `tmp` (the value `++ref_cnt` or `--ref_cnt` loaded), `mode` (the handle's flags), `calls`.
- **Shared:** `refcnt` (`ref_cnt`, unsigned, modulo `RefMod`), `hasBuf` (`buffer != NULL`), `filled` (the buffer holds the entry's data), `changed`, `dirty` (the buffer holds bytes a write put there, which a refill from the archive would not reproduce; a truncate keeps what the buffer held, cut or extended to the size a refill of `getSize()` bytes would read), `acked` (a write returned success), `src` (the ISO file source is open), and the rwlock as `wr` (the writer), `rd` (the readers) and `under` (readers the count lost).
- **The rwlock** is `pthread_rwlock_init(&lock, NULL)`'s glibc default. `wrlock` or `rdlock` by the thread that writes returns `EDEADLK` at once, which the code ignores. `unlock` (glibc 2.25 on) frees the lock if the caller is the writer and otherwise takes the reader path and decrements the reader count. By a thread that holds nothing, that decrement is one too many: the unsigned count of a free lock goes below zero, and no `wrlock` of the node succeeds again; with readers present it reaches zero early, and a writer gets in beside them. `under` counts these decrements, and `WrLock` waits for `Cardinality(rd) = under`.
- **Steps.** `++ref_cnt` and `--ref_cnt` are a load and a store, a data race. Every test of `node->buffer` and `ref_cnt` is its own step, and so is every lock, unlock and buffer change. `ZipDriver::open` is lock, new buffer, fill, unlock; the fill may meet a `zip_fread` error and return at once with the lock write-held (`zipdriver.cpp:85`). `FileSystem::truncate` is lock, body (which may call `fillInBuffer`), `setSize` and `changed = true`, unlock. `ZipDriver::read` is rdlock, copy, unlock. `ZipDriver::close` is lock, release, unlock. `IsoDriver::read` is one step, because it runs under the driver's mutex.
- **Host.** `HostOpen`, `HostRead`, `HostWrite`, `HostTruncate` and `HostRelease` are the handlers. A thread makes at most `MaxCalls` calls besides its releases, and `Done` is the stop once all calls are made and all handles released.
- **Fairness.** `WF_vars(~At(t, "idle") /\ Step(t))`: a thread inside a call is scheduled, because the kernel runs every runnable thread. Nothing obliges the host to send requests.

`RefMod` is 8 rather than 2^32, because TLC's integers stop below 2^31. Any value above the number of threads keeps what the wrap does: `0 - 1` is a large count that is not 0.

### `Mounts.tla`: the mount map of folder mode

When the mounted source is a directory, every archive in it is a directory of the mount. `FileSystemS` maps the archive's host path (`archive_name`, a `char*` compared with `strcmp`) to its `FileSystem`. An archive is a name from `Names`; `TypeOf` says whether `GET_TYPE` finds a driver for it. The tree inside an archive is abstracted to whether it changed (`FileTree` models it).

- **State.** `disk` (the names present in the folder), `fsmap` (`FileSystemS::map`), `fsobj` (each `FileSystem`: live, deleted or not yet made; its `archive_name`; the `archive_path` its driver opened; `changed`; the file its destructor wrote), `nfs` (objects made), `handles` (`FileHandle`s the host holds per `FileSystem`), `orphan` (roots libfuse unhashed, so that it refuses writes to their open files), `crashed`.
- **The save target.** `~FileSystem` of a changed archive calls `saveArchive`, and `zip_close` (or the ISO `ofstream`) writes to the driver's `archive_path`, the path of `zip_open` at mount (`zipdriver.cpp:48`, `isodriver.cpp:386`). A rename changes `archive_name` and the map key, not that path. `SaveTarget` is that file; `Rmdir` and `Destroy` add it to `disk`, so `rmdir` of a renamed, edited archive recreates it under its old name.
- **`Insert` and `Erase`** are `FileSystemS::insert` and `erase`. `insert` is `map[fs->archive_name] = fs`: an existing entry is overwritten, and its old `FileSystem` is dropped without being deleted.
- **`GetFile`** is `getFile`'s find, and on a miss `GET_TYPE`, `new FileSystem` and `insert`. `GetFileOk` is its success: the first regular file on the path exists and has a type.
- **Actions.** `Initialize` (the folder scan), `Open`, `Edit` (any handler that changes the tree through `getFile`, such as `mknod`), `Write`, `Release`, `Rmdir` and `Rename` of an archive root, `Mkdir` of a name with an archive extension, and `Destroy` (`~FileSystemS` deletes every value of the map, and `~FileSystem` saves a changed archive). `ExternalAdd` is another program copying a file into the folder, which `getFile` later finds.
- **Atomic handlers.** libfuse 2.8 takes its tree lock for writing in `rename`, `unlink` and `rmdir` and for reading in the other path operations, and the kernel serialises lookups of one name. So two handlers that change the map never interleave. In particular, two lookups cannot both create a `FileSystem` for the same new archive, and `getattr` cannot find an archive while `rmdir` deletes it.
- **Release after rmdir.** libfuse still sends `release` for a file whose directory was removed (with the path `-`), and refuses its writes. So `Write` requires a root that is not orphaned, and `Release` does not.

Bounds: three names (`a.zip`, `b.zip` with a driver, `notes.txt` without), at most 3 `FileSystem` objects per mount, and one handle per archive. This reaches renames of an archive over another one, an archive removed with a file open in it, a deleted archive recreated by `mkdir`, and a file copied in and found lazily. The deadlock check is off, because `destroy` is the last step of a mount.

## Runs

| Run | Expect | What it shows |
|---|---|---|
| `handles_iso` (`FileTree_iso_handles.cfg`) | pass | On ISO, with two handles of each kind per node, open, release, write, truncate, create, opendir and releasedir are interleaved with the tree operations, and unmount removes a trash directory. Under all of this, a changed file never lacks a buffer (`ChangedHasBuffer`), and a file held open with no buffer always has its file source open (`ReadPathReady`), even when a write open's `fillInBuffer` closes the source under a reader. 529,404 states, under a minute. |
| `zip_save` (`ZipSave_tree.cfg`) | pass | Any session of mknod, mkdir, unlink, rmdir and rename over `MC_Archive` keeps the tree consistent (`TreeConsistent`). It also accounts for every entry exactly once, by its original name (`EntriesAccounted`). The in-place save then leaves no entry that no live node holds (`SaveNoOrphanEntries`). It also gives every changed archived file its buffer, whatever renames fail (`SaveStoresChanges`). The names change only as `Namespace` allows (`NamespaceRefined`). 328,403 states, about two minutes. |
| `race_iso` (`NodeOpenRace_iso.cfg`) | pass | Two threads, two calls each, on an ISO entry. No read copies from a buffer that is being filled (`FilledBeforeRead`). Every unlock of the node's rwlock is by a holder (`UnlockByHolder`). Every call returns (`CallsReturn`). 94,508 states, under half a minute. |
| `race_zip` (`NodeOpenRace_zip.cfg`) | pass | The same threads on a ZIP entry, with the nested driver locking, `zip_fread` errors and unlocks by non-holders: `ref_cnt` wraps as the unsigned counter it is and every return stack stays two calls deep (`TypeOK`). The run fires the ZIP driver's steps. `CallsReturn` does not hold on ZIP: a `zip_fread` error returns with the lock write-held, and after `race_zip_lock`'s path the reader count is below zero, so the next writer blocks for good. The deadlock check is off for that reason. 299,889 states, 11 seconds. |
| `registry_types` (`DriverRegistry_types.cfg`) | pass | Without libmagic, with any subset of the plugins loaded in any order, every `GET_TYPE` that stays inside `ext_low` and every mkdir lookup the daemon survives gives the type the rule gives (`TypeMatchesReference`). 41,554 states, 5 seconds. |
| `mounts_map` (`Mounts_map.cfg`) | pass | In folder mode, any session of opens, edits, writes, releases, archive renames (over each other too), rmdirs, mkdirs and archives copied in keeps every map entry pointing to a live `FileSystem` that is named by its key and whose file exists (`MapMatchesNames`). 2,442,020 states, about a minute. |
| `mounts_uaf` | violation | `NoUseAfterDelete`: the host opens a file in `a.zip`, then `rmdir a.zip` deletes the `FileSystem`, and the `release` libfuse still sends calls `FileSystem::close` on the deleted object. |
| `buffer_content` | violation | `ContentMatchesRef`: an unaligned read crossing a chunk boundary returns its full count but copies only the first chunk's bytes; the host sees zeros past them, because `archivefs_read` clears its buffer first. |
| `race_source` | violation | `DataReachable`: thread 1's `++ref_cnt` makes 1, and before it tests and opens the source, thread 2's open makes 2, skips `driver->open`, returns, and reads through `IsoDriver::read` from a closed file source. |
| `race_lost_write` | violation | `AckedWritesKept`: two write opens both find no buffer. The first makes and fills one, and a write through it returns success. The second then takes the lock and replaces that buffer with `new Buffer(getSize())` filled from the archive: the acknowledged write is gone. (A truncate in the same place is not lost: the refill reads `getSize()` bytes, which the truncate set.) |
| `registry_crash` | violation | `ProcessAlive`: with only the ZIP plugin loaded, `mkdir /m/iso` (a path with no dot) calls `TYPE_BY_EXT(NULL)`, and the `strcmp` on NULL kills the daemon. |
| `race_zip_lock` | violation | `UnlockByHolder`: `truncate` of an unopened ZIP entry holds the write lock. Inside `fillInBuffer`, `ZipDriver::open` gets `EDEADLK`, then unlocks the caller's lock, and `ZipDriver::close` frees the buffer. `truncate`'s own unlock is by a thread that holds nothing. |

Every violation run has a finding in `PROJECT.json` that names the source line. Every property of a passing run has a mutant: a faulty variant of one mapped definition that TLC finds violating it. Examples:

- a repath that moves only the renamed node;
- a save that skips changed files that were not renamed;
- a read that copies from the buffer without the read lock;
- a write that returns holding the write lock;
- a close that counts `ref_cnt` as a signed int.

The spec's invariant `st_nlink = 2 + subdirectories` (`NlinkCount` in `FileTree`) does not hold, because `take` never decrements `st_nlink`. This is recorded as a hazard. It is not a run, because the run budget went to the save and thread findings.

### Retired runs

These runs each showed a bug with a sequence simple enough for a unit test. They were removed to make room for the thread-level runs and the mount-map runs. Their properties stay in the modules, so each run can be restored with a cfg of that one property:

- `zip_truncate` (`ChangedHasBuffer` on ZIP). `race_zip_lock` shows the same path with its locking, and `handles_iso` still checks the property.
- `tar_write` (FileTree's `AckedWritesKept` with TAR). `archivefs_open` ignores a positive `ENOTSUP`, and a write's positive `EBADF` reads as 9 bytes written.
- `zip_keep_source` (`KeepOriginalUntouched`). With `keep_original`, new files go into the source archive.
- `iso_move` (`IsoRenamesApplied`). `iso_node_set_name` renames only within the parent.
- `buffer_chunks` (`ChunksCover` in `Buffer`).
- `iso_save` (`IsoKeepsUntouched`). The ISO save keeps every untouched entry. No run checks the ISO save now.
- `dangling` (FileTree's `NoDanglingHandle`). Run `mkdir d`, `create d/f` and keep the handle, then `rmdir d`: the node is deleted under the host's handle. `mounts_uaf` shows the same for a whole archive.
- `iso_tombs` (`IsoTombsRemoved`). A file renamed and then removed survives in the ISO image, because its tombstone is looked up by its current pathname.
- `zip_save_order` (`SaveMatchesTree`). Run `mv a/b b` over `b`, then `mknod a/b`. The key-order walk adds the new `a/b` while the old entry still has that name. libzip refuses the add, the return value is ignored, and the new file is lost.

### Known violations without a run

The run budget holds no run for these; each is a one-property cfg away:

- `EditsSavedUnderName` (`Mounts`). Edit `a.zip`, rename it to `b.zip`, unmount: the edits are written to a recreated `a.zip`, and `b.zip` keeps its old content. TLC finds it in four steps with `Mounts_map.cfg`'s constants.
- `CallsReturn` on ZIP (`NodeOpenRace`). A `zip_fread` error in `ZipDriver::open` returns with the node's lock write-held, and every later call on the node blocks.

`DriverRegistry` had an edit-name property (the `_edit` name of a save stays in the archive's directory). It was removed: its run builds without libmagic, so the case where the code breaks it (an archive typed by MIME, without an extension, in a dotted directory) cannot occur there, and the property held only for that reason.

Two readdir hazards were dropped as not real for this code: the kernel refuses to read a removed directory and libfuse 2.x fails the path lookup of a removed parent before `archivefs_readdir` runs, and the kernel's per-directory lock keeps `readdir` apart from changes to that directory's entries.

## Plan

1. **`Mounts` additions**: renames of files between two archives (`archivefs.cpp:732`), which combine two `FileTree`s.
2. **`FileTree` additions**: `access` and `isPathSearchable` checked against the POSIX algorithm, plus `chmod` and `utimens`.
3. **`NodeOpenRace` additions**: a refinement of `FileTree`'s atomic `open`/`close` through `refcnt` and the buffer.

## Not modelled

- The command line and option parsing. The folder scan of `initialize` is `Mounts`' `Initialize`; archive mode (one `FileSystem` at the root) is what `FileTree` models.
- Plugin loading with `dlopen` beyond its outcome: `DriverRegistry` lets each plugin load or fail, in any directory order.
- The `tgzdriver.cpp` plugin. Its `REGISTER_DRIVER` calls `DriverHandle("tgz", maker)`, but `archivedriver.hpp` declares no such constructor, so it does not compile against this tree. TAR+GZIP comes from `tardriver.cpp`'s `tgz` and `tar.gz` types.
- Renames of a file inside an archive to a path in another archive (`archivefs.cpp:731-733`). The handler takes only the part of the new path inside its archive and renames the node within the old archive, so the file stays in the first archive under the new inner name. Checking it needs two `FileTree`s under one map; it is not modelled yet, and the hazard list records it.
- A race of two lookups creating the same archive's `FileSystem` in `getFile`, or of `getattr` against `rmdir` of an archive: libfuse's tree lock and the kernel's per-name lookup serialisation exclude both, so `Mounts` runs each handler as one step.
- Byte contents in `FileTree` (they are in `Buffer`), sizes, times, modes and the printing of diagnostics.
- libzip, libtar and libisofs beyond the name-collision and lookup behaviour the saves depend on.
- Burning the ISO image and the `BufferStream` callbacks.
- The physical-file pass-through of folder mode (plain system calls on files that are not archives).
- Allocation failure (`bad_alloc`): the models assume `new` succeeds. The hazards list names the place where that failure leaves the node lock held. `zip_fread` errors are in `NodeOpenRace` only.
- TAR in the thread model: TAR has no write support, so no write open or truncate reaches `fillInBuffer`. Its `open` and `close` lock the node as ZIP's do.
