# TLA+ models of `fs/read_write.c`

This directory holds TLA+ models of `src/linux/fs/read_write.c`, with TLC
configurations that check them. The file has two halves:
- lines 1015-1544: the `search` system call, which `spec.md` describes;
- lines 1-1014: the stock VFS read/write/seek/sendfile system calls.

The two halves share no state. Most of the project models `search`.
`FilePos.tla` models the file position of the first half: read, write,
pread64, pwrite64, lseek and llseek, called concurrently on one open file.

## The system

`search(paths, pattern, flags, buf, len)` looks for the files below one or more
roots whose path matches a pattern, and writes one record per match into the
caller's buffer. The code has these parts:

| Part | Code | What it does |
|---|---|---|
| Pattern matcher | `__match_pathname` (1053-1096), `is_filename` | Backtracking match of `*`, `?`, `[`, `|`, `/` and literal bytes, with a recursion bound of 8. Returns FAILURE, PARTIAL, SUCCESS or OVERFLOW. |
| Path-pattern matcher | `match_pathname` (1099-1116), `strchrskip`, `ispattern`, `isrecursive` | Tries every '/' suffix of the candidate and every '|' alternative. Returns the first outcome that is not FAILURE. |
| Result encoder | `copy_search_result` (1244-1283) | Formats `0|path|meta|`, checks that it and two NULs fit in `len`, and copies it out. Moves the cursor over the record only. |
| Tree walker | `search_filldir` (1185-1205), `abspath`, `search_directory` (1295-1413) | Depth-bounded recursive walk. Lists entries in batches into a per-level buffer. For each entry it appends `/name` to the shared `ds->path`, matches it, reports it, descends into it, and truncates the path back. A filesystem with a native `->search` gets the subtree instead. |
| Orchestrator | `SYSCALL_DEFINE5(search)` (1415-1544) | Allocates the session. Splits `paths` on `|`. Per root, runs the walk, or for a literal pattern (leading '/', no `*?|`) the shortcut `kern_path` + `vfs_path_lookup`. Handles STOPATFIRST across roots and writes the final `\0\0`. |

How the parts interact:
- The orchestrator and the walker share one `struct dir_search`: the cursor, `len`, `results`, `status`, `ds->path`, `base` and the frame array.
- Every frame appends to and truncates the same path buffer.
- An error anywhere unwinds through every frame's `exit` label, each closing its own directory.
- A match under STOPATFIRST makes the matching frame return 0. Each caller, and then the root loop, re-checks `results > 0` to stop.

A `search` call is single-threaded and synchronous, so there is no concurrency inside it to model. The hard behaviours are these:
- the order of steps across recursion levels;
- unwinding on errors;
- arithmetic on the buffer and the path at their bounds;
- the matcher's backtracking and bound;
- entries that vanish between listing and lookup;
- the native driver's one return value.

## Modules

- `Match.tla` (pure operators, CONSTANT `MatchDepth`).
  - `__match_pathname`, `MatchLoop` (its `while(1)`) and `MatchStar` (the `*` do/while) are RECURSIVE operators over C strings: sequences of one-character strings, with `NUL` past the end.
  - `match_pathname` builds the list of tries in the code's order, suffix-major and alternative-minor, and takes `FirstNonFailure`.
  - `strchrskip_starts` and `PathStarts` are the two `for` loops' sequences of positions.
- `MC_Match.tla` checks `Match` against a reference matcher written from spec.md 4.1/4.2.
  - The reference has its own definitions: `Accepts` (the language of a token sequence), `PartiallyAccepts`, `Alternatives` (split on '|') and `SpecStarts` (suffixes).
  - A harness grows a pattern and a path one character at a time, so every pair within the bounds is reached.
- `Search.tla` (EXTENDS Match) models the walker, the encoder and the orchestrator as one state machine over the fields of `struct dir_search`:

  | Variable | Code |
  |---|---|
  | `status`, `results`, `next`, `len`, `path`, `base` | the fields of the same name |
  | `pc` | the call's control point: start, root loop, inside the walk, returned |
  | `stack` | the frames `dirs[0..n]` of the active `search_directory` calls |
  | `openfps` | files opened and not closed |
  | `patOff` | how far `ds->pattern` was advanced |
  | `hw` | the highest user byte written |
  | `out` / `found` | the record texts, and the canonical paths reported |

  The recursion is the explicit `stack`, and only the top frame acts. The actions are:

  | Action | Code | What it covers |
  |---|---|---|
  | `Start` | lines 1430-1466 | allocations, ispattern, leading-'/' stripping |
  | `NextRoot` | one strsep turn for a pattern | also the final framing |
  | `LiteralRoot` | one strsep turn of the literal shortcut | |
  | `Enter` | `search_directory` to its listing | depth bound, open errors, abspath, base, native search |
  | `ReadDir` | one `vfs_readdir` batch | an empty batch returns |
  | `ProcessEntry` | one turn of the entry loop | |

  The shared pieces are operators:
  - `Emit` and `Fits` are copy_search_result.
  - `Abort` is the unwinding through every `exit`.
  - `Return` is a frame's return, with the callers' STOPATFIRST check and truncation.
  - `NativeSearch` is lines 1319-1348.

  The filesystem is a constant `FS`, mapping each canonical directory to its entries in readdir order. Record contents are abstracted to the path text; metadata is abstracted to a length `MetaLen`. `SpecWalkAll` and `SpecLiteral` are the reference: the matches spec.md 4.4/4.5 ask for, computed recursively over `FS`.
- `MC_Search.tla` defines the filesystems and argument sets for the Search runs:
  - `FSMain`: /r with ".", a directory a holding b and a directory a (which holds b), files b and ab, an unreadable c and a native n;
  - `FSNative`: the same, with b inside the native n;
  - `FSSlash`: the root "/".
- `AbstractSearch.tla` is what one call promises its caller, whatever the walk looks like:
  - `Report` adds one or more of the matches, as a longer prefix of the list;
  - `Return` returns the count, after all matches are reported;
  - `Fail` returns an error, leaving a prefix.

  `Search` instantiates it with `target <- expected`, `reported <- found`, `done <- (pc = "done")` and `ret <- status`. `expected` is a ghost variable holding `SpecSearch`, the specification's list of matches for the call's arguments. It is set once in `Init`, so TLC does not recompute the reference walk on every step.
- `FilePos.tla` models the file position shared by tasks that call into one `struct file`:

  | Variable | Code |
  |---|---|
  | `fpos`, `fversion` | `file->f_pos`, `file->f_version` |
  | `isize` | `inode->i_size` |
  | `flock`, `imutex` | the holder of `file->f_lock`, of `inode->i_mutex` |
  | `impl`, `aio`, `mode` | `f_op->llseek`, whether `f_op` has `aio_read`/`aio_write`, and `f_mode`, fixed at open |
  | `tpc`, `call`, `tpos`, `tret` | each task's point in its call, its arguments, its local `loff_t pos` or `offset`, and its return value |
  | `loaded`, `raced` | ghosts for `SeekCurSerialized` |

  A call is split into steps exactly where the code reads and writes `f_pos` separately:

  | Action | Code |
  |---|---|
  | `ReadWriteBegin` | `read`/`write`/`readv`/`writev` up to `file_pos_read` (465-473, 793-803) |
  | `ReadWriteExec` | `vfs_read`/`vfs_write` (369-395, 425-451) or `vfs_readv`/`vfs_writev` (714-789) on the local pos (474); the driver may fail |
  | `ReadWriteStore` | `file_pos_write` (475) and the return |
  | `PositionalReadWrite` | `pread64`/`pwrite64`/`preadv`/`pwritev` (500-548, 841-889; the map names only 500-548), atomic because they never touch `f_pos` |
  | `LseekBegin` | `lseek`/`llseek` to the `->llseek`; `no_llseek` and `noop_llseek` finish here |
  | `GenericSwitch` | the switch of `generic_file_llseek_size` (74-117) |
  | `SeekLock`, `SeekLoad` | `spin_lock(&f_lock)` and `f_pos + offset` for SEEK_CUR; `mutex_lock(&i_mutex)` for `default_llseek` |
  | `GenericExec` | `lseek_execute` and `spin_unlock` |
  | `DefaultSwitch`, `DefaultExec` | `default_llseek` (167-219) |
  | `SendfileBegin` | `sendfile`/`sendfile64` without an offset, and `do_sendfile` up to the clamp of `count` (891-946) |
  | `SendfileSplice` | `do_splice_direct`, which reads `f_pos` again and stores it unlocked (959) |
  | `SendfileReturn` | the re-read `*ppos > max` and the return (966-977) |
  | `PositionalSendfile` | `sendfile`/`sendfile64` with an offset (979-1014), atomic because `ppos` is local |

  - `loff_t` is a `LOFF_BITS` two's-complement integer that wraps (`ToLoff`), because the kernel builds with `-fno-strict-overflow`.
  - `off_t` is `OFF_BITS` wide, so lseek's EOVERFLOW is reachable.
  - `rw_verify_area` and `lseek_execute` are operators translated check by check.
  - The filesystem's `->read`/`->write` is outside the repository. `Driver` takes it to transfer the bytes between `*pos` and `i_size` (read) or all of them (write), and to advance `*pos` by that amount.
  - With `DriverFaults`, any driver call may instead fail with EIO. For a vectored call the failing segment is chosen (`FaultPoints`), so a failure after some segments moved bytes is reached.
  - The vectored path is translated operator by operator:
    - `rw_copy_check_uvector`, with `CheckSegs` as its segment loop: the EINVAL for a negative length and the cut at `MAX_RW_COUNT`;
    - `do_loop_readv_writev`: one driver call per segment, stopping at a short transfer or an error, which replaces the count only if nothing moved yet (`LoopError`);
    - `vfs_rwv`: `do_readv_writev` (the `aio` branch is `do_sync_readv_writev`, one driver call for the total);
    - `Transfer`: the scalar or vectored call that a syscall makes.
  - sendfile is `do_sendfile_check` (the checks of 903-935), `SendfileClamp` (940-946, with `pos + count` compared as `size_t` and `pos >= max` as `loff_t`), `Splice` and `SendfileResult` (968). `do_splice_direct` is in fs/splice.c, outside the repository. `Splice` takes it to verify the area again (as `do_splice_to` does), read up to `i_size`, and store `*ppos` only if bytes moved. It is one step, so a racing store cannot fall between its read and its store. The output file is taken to be writable, with `s_maxbytes` `OUT_MAXBYTES`.
  - Each task has its own set of calls (`Calls[t]`). This keeps every racing pair while cutting the branching.
- `MC_FilePos.tla` instantiates FilePos with:
  - two tasks, two calls each, out of 8 calls per task: scalar, positional and vectored reads and writes for one, seeks of every origin for the other (plus `preadv`/`pwritev`);
  - all four `->llseek` kinds, the generic one with `aio` methods and the others without;
  - `UIO_MAXIOV = 2`, so `pwritev` of three segments gets EINVAL, and driver faults on;
  - a `sendfile` of 3 by t1 and a `sendfile` with an `off_t` offset at 2 by t2; `OUT_MAXBYTES = 3`, so `max` is 3, below `i_size` 4, and t2's SEEK_HOLE or SEEK_END moves `f_pos` past it between t1's checks and its splice;
  - three open modes: read-write, read-write with unsigned offsets, and read-only without pread.

## Runs

| Run | Expect | Shows |
|---|---|---|
| match | pass | `match_pathname` agrees with spec.md's matcher on every pattern up to 4 characters from `a / * ? | [` without an empty alternative (those are `match_emptyalt`'s subject, and the reference's `Defined` leaves them out) and every path up to 4 characters over `a b /` (49,400 states). OVERFLOW may only lose matches that need 8 or more wildcards. |
| match_overflow | violation | An overflowing alternative short-circuits the others: `*********b|a` does not match `/a`. |
| match_emptyalt | violation | `|a` and `a||b` skip the alternative after the empty one. |
| search | pass | Checks five properties (listed below) under every combination of: 3 root lists (including a missing root, an unreadable one and a file), 6 patterns (recursive, anchored, alternation, literal), 4 flag sets, buffers of 8 and 60 bytes, and vanished entries. The tree reaches depth 3, where TREE_DEPTH = 3 stops the walk. |
| search_slash | violation | Root "/" breaks matching below the first level. |
| search_alloc | violation | A failed kmalloc of `ds->dirs` returns 0 results. |
| search_pathmax | violation | `strcat` grows `ds->path` past PATH_MAX. |
| search_native | violation | The native return value is both count and bytes. |
| search_driver | violation | A native error leaves the directory open. |
| search_putname | violation | A literal pattern with a leading '/' advances `ds->pattern`, and `putname` at line 1538 frees the advanced pointer instead of the one `getname` returned (`PatternFreedWhole`). |
| filepos | pass | Two tasks interleave read, write, readv, writev, pread64, pwrite64, preadv, pwritev, lseek and llseek under every `->llseek` kind and open mode, sendfile with and without an offset, with failing drivers (200k states, about 3 minutes). Checks `FPosNonNegative`, `SeekCurSerialized`, `RwNeverRewinds`, `TransferAccounted` and `AllCallsReturn` (listed below). |

The `search` run checks these properties:
- `OutputWithinBuffer`: no byte is written past `len`.
- `StopAtFirst`: at most one result with STOPATFIRST.
- `FilesReleased`: every opened directory is closed.
- `ImplementsAbstractSearch`: `Search` refines `AbstractSearch!SafeSpec`. The matches reach the buffer in the specification's order, an error leaves a prefix of them, and a count is returned only after all of them.
- `TypeOK`.

The `filepos` run checks these properties:
- `FPosNonNegative`: without FMODE_UNSIGNED_OFFSET, `f_pos` is never negative, whatever origins, offsets and counts the tasks combine. `lseek_execute`, `default_llseek` and `rw_verify_area` must all refuse a wrapped position.
- `SeekCurSerialized`: the promise in the comment above `generic_file_llseek_size`. Between a SEEK_CUR's read of `f_pos` and its store, only an unlocked store (read, write, SEEK_SET/END of the generic kind) changes `f_pos`.
- `RwNeverRewinds` (action property): the pos handed back by `vfs_read`/`vfs_write` is never before the one given. It is compared as unsigned under FMODE_UNSIGNED_OFFSET and as signed otherwise.
- `TransferAccounted` (action property): when `vfs_read`, `vfs_write`, `vfs_readv` or `vfs_writev` returns, an error leaves the local pos unchanged, and a count moved it by exactly that count, which is at most `MAX_RW_COUNT`. It takes the clamp at line 330, the cut of later segments at 703, and the rule at 622 that a failing later segment does not hide the bytes already moved.
- `AllCallsReturn` (liveness): every call returns, so no path keeps `f_lock` or `i_mutex`.

FilePos has no type invariant in the run: every position passes through `ToLoff`, so membership in `loff_t` would hold by construction. `ResultsCountRecords` and `FindsSpecMatches` are checked only by the violation runs that show their findings. In the main search run the first restates `Emit`, and the second follows from `ImplementsAbstractSearch`.

No property is stated about sendfile's return. `do_sendfile` clamps `count` on one read of `f_pos` (line 940), and `do_splice_direct` reads it again. After the splice it compares `*ppos > max` (line 968), and that re-read sees any store made after the splice as well as the splice's own. A property of what sendfile returns would have to excuse the very race it is about. The run still reaches all these orders, and `FPosNonNegative`, `AllCallsReturn` and `SeekCurSerialized` cover the splice's store. The hazards at lines 940, 941 and 968 record this.

Every property of a passing run has a mutant in PROJECT.json that TLC catches:
- the fit check without the NULs, or dropped;
- the STOPATFIRST check only at the root;
- an abort that leaves the top file open;
- the depth check off by one;
- for FilePos: `lseek_execute` without its sign check, a lock that does not wait, `rw_verify_area` without the `pos + count` check, `default_llseek` returning early with `i_mutex` held, and `do_loop_readv_writev` letting a later error overwrite the count.

## Bounds

Paths and names use one-letter components. The walker's behaviour depends only on:
- the order of entries;
- which entries are directories, unreadable or native;
- whether a record fits.

The sizes are scaled down:
- `SEARCH_BUF = 8` so that a directory of three entries needs two `vfs_readdir` batches.
- `PATH_MAX = 20` in most runs and 5 where the overflow is shown.
- Buffers of 8 bytes (one short record such as `0|b||` (5 bytes) fits with its two NULs; the next gives ERANGE) and 60 bytes (several fit).
- `MetaLen = 3` for the metadata field.

`TREE_DEPTH` is 3 in every Search run. `FSMain` has a directory at depth 3, so the bound is reached in the main run. The check `n >= TREE_DEPTH` does not depend on the value. `MatchDepth` is the code's 8 in every run. For the matcher, 4 characters already cover every token next to every other token and a path of two components.

FilePos uses a 4-bit `loff_t` (-8..7) and a 3-bit `off_t` (-4..3), with `i_size` 4, `s_maxbytes` 6 and `MAX_RW_COUNT` 4. At these widths each of these happens within two calls:
- SEEK_END 3 wraps, or passes `s_maxbytes`;
- lseek's result fails to fit `off_t`;
- a write of 2 near the top wraps `pos + count`;
- a SEEK_SET to -1 is kept only with unsigned offsets.
- sendfile's clamp to `max - pos` (a positional sendfile at 2 for 3 under `MAX_NON_LFS` = 3), and its EOVERFLOW when a seek moves `f_pos` past `max` = 3 before the splice;
- with unsigned offsets, `pos + count` wraps as `size_t` for a sendfile after SEEK_SET -1.

The checks are written on the widths, so no case depends on 64 bits. Two tasks are enough for each race: one unlocked store against one locked read-modify-write.

## Fairness and liveness

`Search` assumes no fairness, and its refinement checks only `AbstractSearch!SafeSpec`, the ordering half. A `search` call is one sequential computation, and it terminates because the tree is finite and the walk has a depth bound. Checking that termination under weak fairness would make TLC evaluate `ENABLED` of the walk's actions, which recompute path lookups, at every state. That costs too much for what it would show. Every Search run has `CHECK_DEADLOCK FALSE` because the model stops when the call returns (`pc = "done"`).

`FilePos` assumes weak fairness of each task's steps (`FairSpec`). Each task is a kernel thread that the scheduler keeps running:
- a spinner on `f_lock` or a sleeper on `i_mutex` is woken once the lock is released;
- no step in this file waits for anything else.

Under that assumption `AllCallsReturn` says that no path leaves a lock held. The `filepos` run has `CHECK_DEADLOCK FALSE` because the tasks stop once their calls are spent.

## Not modelled

- Of the read/write layer (lines 1-1014):
  - `do_sync_read`/`do_sync_write` and their EIOCBRETRY loop, which hold no state of this file;
  - the inside of `do_splice_direct` (fs/splice.c, outside the repository): its separate read and store of `*ppos` are one step here;
  - sendfile's output file, its `f_pos` and its FMODE_WRITE check; the rchar/wchar accounting;
  - `iov_shorten`, which no code of this file calls;
  - the `kmalloc` of an iovec array longer than UIO_FASTIOV, and `copy_from_user`'s EFAULT;
  - `fget_light`'s EBADF, `access_ok`, mandatory locks and the security hook, which refuse a call before it touches `f_pos`;
  - llseek's EFAULT from `copy_to_user`.
- lseek's EOVERFLOW leaves `f_pos` moved (line 251). The comment there says this is intended on 32-bit platforms, so no property claims otherwise.
- The failures of `access_ok` and `getname`, which return before any session state exists.
- The `copy_to_user` EFAULT path.
- The metadata digits: their length is a constant.
- The native driver itself, which is outside the repository.
- Symbolic links: the tree has none.
- Reading past the NUL for a pattern ending in '|'. This is undefined behaviour, so such patterns are excluded from the matcher's reference by `Defined`.
- The `memset` of `dirs[0].stat` instead of `dirs[n].stat` (line 1376). It is harmless because the stat is only read when METADATA filled it.

## Plan for later work

- Symbolic links, for the TODO at line 1017 on the root being a link.
- A finer abstraction of the native driver's return value, as count, bytes or a mix.
- Listings longer than SEARCH_BUF with long names, to check that no entry is dropped.
- Termination of `search` under fairness, with a cheaper `ENABLED` (precomputed lookups).
