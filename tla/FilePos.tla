------------------------------- MODULE FilePos -------------------------------
(***************************************************************************)
(* The file position of fs/read_write.c: tasks sharing one struct file  *)
(* call read, write, their vectored and positional forms, sendfile,     *)
(* lseek and llseek.                                                     *)
(* read and write copy f_pos into a local, call vfs_read/vfs_write on it  *)
(* and store it back, with no lock.  ->llseek is generic_file_llseek      *)
(* (SEEK_CUR under f_lock), default_llseek (everything under i_mutex),    *)
(* noop_llseek or none.  A task's call is split where the code reads      *)
(* and writes f_pos in separate steps.  loff_t is LOFF_BITS wide and      *)
(* wraps; off_t, what lseek returns, is OFF_BITS wide.  The filesystem's  *)
(* own ->read/->write are outside this file: they are taken to transfer   *)
(* the bytes between *pos and i_size (read) or all of them (write) and to *)
(* advance *pos by that, as a driver that relies on rw_verify_area does.  *)
(***************************************************************************)
EXTENDS Integers, FiniteSets, Sequences

CONSTANTS
    Threads,        \* the tasks sharing the struct file
    Calls,          \* the calls each task may make: [Threads -> SUBSET of records
                    \* [sys, arg, origin, pos, vec]]
    CallsPerThread, \* how many calls each task makes
    FileOps,        \* the f_op tables: [llseek, aio], llseek being "generic",
                    \* "default", "noop" or "none", aio whether it has aio_read/write
    ModeArgs,       \* the f_mode flag sets the file may be opened with
    LOFF_BITS,      \* width of loff_t (64)
    OFF_BITS,       \* width of off_t (32 on 32-bit platforms)
    S_MAXBYTES,     \* inode->i_sb->s_maxbytes
    MAX_RW_COUNT,   \* INT_MAX & PAGE_CACHE_MASK
    ISIZE0,         \* i_size when the tasks start
    UIO_MAXIOV,     \* the most iovec segments one call may pass
    DriverFaults,   \* may the filesystem's ->read/->write fail with EIO?
    OUT_MAXBYTES,   \* s_maxbytes of sendfile's output file
    NoThread        \* the holder of a free lock

CONSTANTS EINVAL, ENXIO, ESPIPE, EOVERFLOW, EBADF, EIO
Errors == {EINVAL, ENXIO, ESPIPE, EOVERFLOW, EBADF, EIO}

SEEK_SET == 0
SEEK_CUR == 1
SEEK_END == 2
SEEK_DATA == 3
SEEK_HOLE == 4
SEEK_MAX == SEEK_HOLE

NoCall == [sys |-> "none", arg |-> 0, origin |-> 0, pos |-> 0, vec |-> <<>>]

(* Two's-complement loff_t, and the size_t view of the same bits. *)
LoffMin == -(2^(LOFF_BITS - 1))
LoffMax == 2^(LOFF_BITS - 1) - 1
Loff == LoffMin..LoffMax
ToLoff(x) == ((x - LoffMin) % (2^LOFF_BITS)) + LoffMin
AsSize(x) == x % (2^LOFF_BITS)
MAX_NON_LFS == 2^(OFF_BITS - 1) - 1
FitsOff(x) == -(2^(OFF_BITS - 1)) <= x /\ x < 2^(OFF_BITS - 1)
Min2(a, b) == IF a <= b THEN a ELSE b
Max2(a, b) == IF a >= b THEN a ELSE b

VARIABLES
    fpos,      \* file->f_pos
    fversion,  \* file->f_version
    isize,     \* inode->i_size
    flock,     \* the holder of file->f_lock
    imutex,    \* the holder of inode->i_mutex
    impl,      \* file->f_op->llseek, fixed at open
    aio,       \* does file->f_op have aio_read/aio_write?
    mode,      \* file->f_mode, fixed at open
    tpc,       \* where each task is in its call
    call,      \* each task's current call
    tpos,      \* each task's local loff_t: pos of read/write, offset of llseek
    tret,      \* each task's last return value
    left,      \* calls each task has still to make
    loaded,    \* ghost: the f_pos a SEEK_CUR read
    raced      \* ghost: has an unlocked store of f_pos happened since?

vars == <<fpos, fversion, isize, flock, imutex, impl, aio, mode, tpc, call, tpos, tret, left,
          loaded, raced>>

(* loff_t addition; the kernel builds with -fno-strict-overflow, so it wraps. *)
LoffAdd(a, b) == ToLoff(a + b)

unsigned_offsets == "UNSIGNED_OFFSET" \in mode

(* Mutant: the check of a negative offset is missing. *)
lseek_execute_any_sign(offset, maxsize) ==
    IF offset > maxsize THEN EINVAL ELSE offset

(* lseek_execute's checks: the offset it stores, or EINVAL. *)
lseek_execute(offset, maxsize) ==
    IF offset < 0 /\ ~unsigned_offsets THEN EINVAL
    ELSE IF offset > maxsize THEN EINVAL
    ELSE offset

(* if (offset != file->f_pos) { file->f_pos = offset; file->f_version = 0; } *)
SetPos(r) ==
    IF r \notin Errors /\ r /= fpos
    THEN fpos' = r /\ fversion' = 0
    ELSE UNCHANGED <<fpos, fversion>>

(* vfs_llseek: no_llseek unless FMODE_LSEEK and f_op->llseek. *)
vfs_llseek == IF "LSEEK" \in mode /\ impl /= "none" THEN impl ELSE "no"

(* The tail of SYSCALL lseek (the off_t result must equal the loff_t one) *)
(* or of SYSCALL llseek ((int)offset if negative, else 0 once the loff_t *)
(* is copied out).                                                        *)
SeekReturn(c, res) ==
    IF res \in Errors THEN res
    ELSE IF c.sys = "lseek" THEN (IF FitsOff(res) THEN res ELSE EOVERFLOW)
    ELSE IF res < 0 THEN res
    ELSE 0

(* Mutant: rw_verify_area without the check that pos + count wraps. *)
rw_verify_area_no_sum_check(pos, count) ==
    LET clamp == IF count > MAX_RW_COUNT THEN MAX_RW_COUNT ELSE count IN
    IF ToLoff(count) < 0 THEN EINVAL
    ELSE IF pos < 0 THEN IF ~unsigned_offsets THEN EINVAL
                         ELSE IF count >= AsSize(-pos) THEN EOVERFLOW ELSE clamp
    ELSE clamp

(* rw_verify_area: EINVAL or EOVERFLOW, else the count clamped to        *)
(* MAX_RW_COUNT.  No mandatory locks and no security module refuse.      *)
rw_verify_area(pos, count) ==
    LET clamp == IF count > MAX_RW_COUNT THEN MAX_RW_COUNT ELSE count IN
    IF ToLoff(count) < 0 THEN EINVAL
    ELSE IF pos < 0 THEN IF ~unsigned_offsets THEN EINVAL
                         ELSE IF count >= AsSize(-pos) THEN EOVERFLOW ELSE clamp
    ELSE IF LoffAdd(pos, count) < 0 /\ ~unsigned_offsets THEN EINVAL
    ELSE clamp

(* The filesystem's ->read / ->write (or aio_read / aio_write) of len    *)
(* bytes at pos, when it does not fail: a read stops at i_size, a write  *)
(* extends it; *pos moves by what was transferred.                       *)
Driver(kind, pos, len, size) ==
    LET n == IF kind = "read" THEN Min2(len, Max2(size - pos, 0)) ELSE len
        np == LoffAdd(pos, n)
    IN  [n |-> n, pos |-> np, size |-> IF kind = "write" THEN Max2(size, np) ELSE size]

(* The FMODE_READ / FMODE_WRITE check of vfs_read(v) / vfs_write(v). *)
ModeAllows(kind) == (IF kind = "read" THEN "READ" ELSE "WRITE") \in mode

(* vfs_read / vfs_write at *pos = pos: the result, the new *pos and      *)
(* i_size.  f_op and the user buffer are taken to be valid; fail is a    *)
(* driver that returns EIO.                                               *)
vfs_rw(kind, pos, count, fail) ==
    LET v == rw_verify_area(pos, count)
        d == Driver(kind, pos, v, isize)
    IN  IF ~ModeAllows(kind) THEN [ret |-> EBADF, pos |-> pos, size |-> isize]
        ELSE IF v \in Errors THEN [ret |-> v, pos |-> pos, size |-> isize]
        ELSE IF fail THEN [ret |-> EIO, pos |-> pos, size |-> isize]
        ELSE [ret |-> d.n, pos |-> d.pos, size |-> d.size]

(* The for loop of rw_copy_check_uvector from segment i on, ret bytes   *)
(* counted and out the checked segments: EINVAL for a length negative as *)
(* ssize_t, else the segment is cut so the total stays within            *)
(* MAX_RW_COUNT (the later ones to 0).                                   *)
RECURSIVE CheckSegs(_, _, _, _)
CheckSegs(segs, i, ret, out) ==
    IF i > Len(segs) THEN [ret |-> ret, segs |-> out]
    ELSE IF ToLoff(segs[i]) < 0 THEN [ret |-> EINVAL, segs |-> out]
    ELSE LET len == Min2(segs[i], MAX_RW_COUNT - ret)
         IN  CheckSegs(segs, i + 1, ret + len, Append(out, len))

(* rw_copy_check_uvector: 0 for no segments, EINVAL for too many, else   *)
(* the loop over the segments.  The user memory is taken to be readable  *)
(* and the vector to fit UIO_FASTIOV, so kmalloc is not called.          *)
rw_copy_check_uvector(segs) ==
    IF segs = <<>> THEN [ret |-> 0, segs |-> <<>>]
    ELSE IF Len(segs) > UIO_MAXIOV THEN [ret |-> EINVAL, segs |-> segs]
    ELSE CheckSegs(segs, 1, 0, <<>>)

(* Mutant: a failing segment's error replaces the bytes already moved. *)
LoopErrorOverwrites(ret) == EIO

(* if (nr < 0) { if (!ret) ret = nr; break; } *)
LoopError(ret) == IF ret = 0 THEN EIO ELSE ret

(* do_loop_readv_writev from segment i on, with ret bytes moved so far:  *)
(* one ->read / ->write per segment, stopping at the first that fails    *)
(* (segment fail) or moves less than asked.                              *)
RECURSIVE do_loop_readv_writev(_, _, _, _, _, _, _)
do_loop_readv_writev(kind, segs, i, pos, size, ret, fail) ==
    IF i > Len(segs) THEN [ret |-> ret, pos |-> pos, size |-> size]
    ELSE IF i = fail THEN [ret |-> LoopError(ret), pos |-> pos, size |-> size]
    ELSE LET d == Driver(kind, pos, segs[i], size) IN
         IF d.n /= segs[i] THEN [ret |-> ret + d.n, pos |-> d.pos, size |-> d.size]
         ELSE do_loop_readv_writev(kind, segs, i + 1, d.pos, d.size, ret + d.n, fail)

(* vfs_readv / vfs_writev and do_readv_writev at *pos = pos: the vector  *)
(* is checked, its total verified against pos, and handed whole to       *)
(* aio_read / aio_write (do_sync_readv_writev) or segment by segment to  *)
(* ->read / ->write.  fail > 0 makes the driver return EIO (for the aio   *)
(* path, at once).                                                        *)
vfs_rwv(kind, segs, pos, fail) ==
    LET v == rw_copy_check_uvector(segs)
        a == rw_verify_area(pos, v.ret)
        d == Driver(kind, pos, v.ret, isize)
        keep(r) == [ret |-> r, pos |-> pos, size |-> isize]
    IN  IF ~ModeAllows(kind) THEN keep(EBADF)
        ELSE IF v.ret \in Errors THEN keep(v.ret)
        ELSE IF v.ret = 0 THEN keep(0)
        ELSE IF a \in Errors THEN keep(a)
        ELSE IF aio THEN (IF fail > 0 THEN keep(EIO)
                          ELSE [ret |-> d.n, pos |-> d.pos, size |-> d.size])
        ELSE do_loop_readv_writev(kind, v.segs, 1, pos, isize, 0, fail)

KindOf(sys) == IF sys \in {"read", "readv", "pread", "preadv"} THEN "read" ELSE "write"
Vectored(sys) == sys \in {"readv", "writev", "preadv", "pwritev"}

(* The transfer of a read/write-family call at pos; fail picks the      *)
(* driver call that returns EIO (0: none).                               *)
Transfer(c, pos, fail) ==
    IF Vectored(c.sys) THEN vfs_rwv(KindOf(c.sys), c.vec, pos, fail)
    ELSE vfs_rw(KindOf(c.sys), pos, c.arg, fail > 0)

FaultPoints(c) == IF DriverFaults THEN 0..Max2(Len(c.vec), 1) ELSE {0}

(* do_sendfile up to do_splice_direct, with *ppos = pos: EBADF unless   *)
(* the input is readable, ESPIPE for an offset without FMODE_PREAD,      *)
(* rw_verify_area of the input (the output's, at its own f_pos, only     *)
(* clamps again), then EOVERFLOW if pos is at max or the count cut to    *)
(* max - pos.  pos + count is a size_t sum, so unsigned; pos >= max is  *)
(* signed.  The output file is taken to be open for writing.             *)
SendfileClamp(pos, count, max) ==
    IF AsSize(pos + count) <= AsSize(max) THEN count
    ELSE IF pos >= max THEN EOVERFLOW
    ELSE AsSize(max - pos)

do_sendfile_check(pos, count, max, offset) ==
    LET v == rw_verify_area(pos, count) IN
    IF ~ModeAllows("read") THEN EBADF
    ELSE IF offset /\ "PREAD" \notin mode THEN ESPIPE
    ELSE IF v \in Errors THEN v
    ELSE SendfileClamp(pos, v, max)

(* do_splice_direct (fs/splice.c): do_splice_to verifies the area again  *)
(* at *ppos and reads up to i_size; *ppos is stored only if bytes moved. *)
(* fail is the input's ->splice_read returning EIO.                      *)
Splice(pos, count, fail) ==
    LET v == rw_verify_area(pos, count)
        d == Driver("read", pos, v, isize)
    IN  IF v \in Errors THEN [ret |-> v, pos |-> pos]
        ELSE IF fail THEN [ret |-> EIO, pos |-> pos]
        ELSE [ret |-> d.n, pos |-> IF d.n > 0 THEN d.pos ELSE pos]

(* if ( *ppos > max) retval = -EOVERFLOW; *)
SendfileResult(ret, ppos, max) == IF ppos > max THEN EOVERFLOW ELSE ret

(* max for a sendfile without an offset (or sendfile64 with one). *)
SendfileMax == Min2(S_MAXBYTES, OUT_MAXBYTES)

Goto(t, p) == tpc' = [tpc EXCEPT ![t] = p]

(* The call of t returns r; its locals go with its stack frame. *)
Leave(t, r) ==
    /\ tret' = [tret EXCEPT ![t] = r]
    /\ tpc' = [tpc EXCEPT ![t] = "idle"]
    /\ call' = [call EXCEPT ![t] = NoCall]
    /\ tpos' = [tpos EXCEPT ![t] = 0]
    /\ loaded' = [loaded EXCEPT ![t] = 0]

Finish(t, r) == Leave(t, r) /\ raced' = [raced EXCEPT ![t] = FALSE]

(* t stores f_pos without a lock and returns: every SEEK_CUR between its *)
(* read of f_pos and its store has raced.                                 *)
MarkRaced(t) ==
    raced' = [u \in Threads |-> IF u = t THEN FALSE ELSE raced[u] \/ tpc[u] = "seek_exec"]

(* Mutant: taking a lock does not wait for its holder. *)
LockFreeAlways(l) == TRUE

(* spin_lock / mutex_lock: wait until nobody holds it. *)
LockFree(l) == l = NoThread

(* default_llseek's "goto out": mutex_unlock, then return retval. *)
(* Mutant: an early exit returns with i_mutex still held. *)
DefaultSeekEarlyKeepsMutex(t, r) ==
    /\ Finish(t, r)
    /\ UNCHANGED imutex

DefaultSeekEarly(t, r) ==
    /\ Finish(t, r)
    /\ imutex' = NoThread

(***************************************************************************)
(* Actions of task t.                                                     *)
(***************************************************************************)
Init ==
    /\ \E f \in FileOps : impl = f.llseek /\ aio = f.aio
    /\ mode \in ModeArgs
    /\ fpos = 0
    /\ fversion = 1
    /\ isize = ISIZE0
    /\ flock = NoThread
    /\ imutex = NoThread
    /\ tpc = [t \in Threads |-> "idle"]
    /\ call = [t \in Threads |-> NoCall]
    /\ tpos = [t \in Threads |-> 0]
    /\ tret = [t \in Threads |-> 0]
    /\ left = [t \in Threads |-> CallsPerThread]
    /\ loaded = [t \in Threads |-> 0]
    /\ raced = [t \in Threads |-> FALSE]

(* An idle task with calls left enters a system call. *)
Enter(t) ==
    /\ tpc[t] = "idle" /\ left[t] > 0
    /\ left' = [left EXCEPT ![t] = @ - 1]

(* SYSCALL read / write / readv / writev up to vfs_read(v):              *)
(* loff_t pos = file_pos_read(file).                                      *)
ReadWriteBegin(t) ==
    /\ Enter(t)
    /\ \E c \in Calls[t] :
         c.sys \in {"read", "write", "readv", "writev"} /\ call' = [call EXCEPT ![t] = c]
    /\ tpos' = [tpos EXCEPT ![t] = fpos]
    /\ Goto(t, "rw_exec")
    /\ UNCHANGED <<fpos, fversion, isize, flock, imutex, impl, aio, mode, tret, loaded, raced>>

(* vfs_read / vfs_write / vfs_readv / vfs_writev on the local pos. *)
ReadWriteExec(t) ==
    /\ tpc[t] = "rw_exec"
    /\ \E f \in FaultPoints(call[t]) : \E r \in {Transfer(call[t], tpos[t], f)} :
       /\ tpos' = [tpos EXCEPT ![t] = r.pos]
       /\ tret' = [tret EXCEPT ![t] = r.ret]
       /\ isize' = r.size
    /\ Goto(t, "rw_store")
    /\ UNCHANGED <<fpos, fversion, flock, imutex, impl, aio, mode, call, left, loaded, raced>>

(* file_pos_write(file, pos): stored whatever vfs_read returned, errors  *)
(* included, and the call returns ret.                                    *)
ReadWriteStore(t) ==
    /\ tpc[t] = "rw_store"
    /\ fpos' = tpos[t]
    /\ MarkRaced(t)
    /\ Leave(t, tret[t])
    /\ UNCHANGED <<fversion, isize, flock, imutex, impl, aio, mode, left>>

(* SYSCALL pread64 / pwrite64 / preadv / pwritev: EINVAL for pos < 0,   *)
(* ESPIPE without FMODE_PREAD / FMODE_PWRITE, else the transfer at pos,  *)
(* never touching f_pos.                                                  *)
PositionalReadWrite(t) ==
    /\ Enter(t)
    /\ \E c \in Calls[t] : \E f \in FaultPoints(c) :
         /\ c.sys \in {"pread", "pwrite", "preadv", "pwritev"}
         /\ LET may == (IF KindOf(c.sys) = "read" THEN "PREAD" ELSE "PWRITE") \in mode
                r == Transfer(c, c.pos, f)
            IN
            \/ c.pos < 0 /\ Finish(t, EINVAL) /\ UNCHANGED isize
            \/ c.pos >= 0 /\ ~may /\ Finish(t, ESPIPE) /\ UNCHANGED isize
            \/ c.pos >= 0 /\ may /\ Finish(t, r.ret) /\ isize' = r.size
    /\ UNCHANGED <<fpos, fversion, flock, imutex, impl, aio, mode>>

(* SYSCALL lseek / llseek up to the ->llseek: EINVAL for an origin past  *)
(* SEEK_MAX, then no_llseek, noop_llseek, or the start of                *)
(* generic_file_llseek (no lock yet) or of default_llseek (i_mutex).     *)
LseekBegin(t) ==
    /\ Enter(t)
    /\ \E c \in Calls[t] :
         /\ c.sys \in {"lseek", "llseek"}
         /\ \/ c.origin > SEEK_MAX /\ Finish(t, EINVAL)
            \/ c.origin <= SEEK_MAX /\ vfs_llseek = "no" /\ Finish(t, SeekReturn(c, ESPIPE))
            \/ c.origin <= SEEK_MAX /\ vfs_llseek = "noop" /\ Finish(t, SeekReturn(c, fpos))
            \/ /\ c.origin <= SEEK_MAX /\ vfs_llseek \in {"generic", "default"}
               /\ call' = [call EXCEPT ![t] = c]
               /\ Goto(t, IF vfs_llseek = "generic" THEN "seek_switch" ELSE "seek_lock")
               /\ UNCHANGED <<tret, tpos, loaded, raced>>
    /\ UNCHANGED <<fpos, fversion, isize, flock, imutex, impl, aio, mode>>

(* The offset the switch of generic_file_llseek_size / default_llseek    *)
(* computes for SEEK_SET, SEEK_END, SEEK_DATA and SEEK_HOLE.              *)
SeekTarget(c) ==
    IF c.origin = SEEK_END THEN LoffAdd(c.arg, isize)
    ELSE IF c.origin = SEEK_HOLE THEN isize
    ELSE c.arg

NoData(c) == c.origin \in {SEEK_DATA, SEEK_HOLE} /\ c.arg >= isize

(* generic_file_llseek_size's switch, with no lock: SEEK_CUR by 0 returns *)
(* f_pos at once, SEEK_CUR by another offset goes for f_lock, SEEK_DATA   *)
(* and SEEK_HOLE at or past i_size give ENXIO, the rest go on to          *)
(* lseek_execute.                                                          *)
GenericSwitch(t) ==
    /\ tpc[t] = "seek_switch" /\ vfs_llseek = "generic"
    /\ LET c == call[t] IN
       \/ /\ c.origin = SEEK_CUR /\ c.arg = 0
          /\ Finish(t, SeekReturn(c, fpos))
       \/ /\ c.origin = SEEK_CUR /\ c.arg /= 0
          /\ Goto(t, "seek_lock") /\ UNCHANGED <<call, tpos, tret, loaded, raced>>
       \/ /\ NoData(c)
          /\ Finish(t, ENXIO)
       \/ /\ c.origin /= SEEK_CUR /\ ~NoData(c)
          /\ tpos' = [tpos EXCEPT ![t] = SeekTarget(c)]
          /\ Goto(t, "seek_exec") /\ UNCHANGED <<call, tret, loaded, raced>>
    /\ UNCHANGED <<fpos, fversion, isize, flock, imutex, impl, aio, mode, left>>

(* default_llseek's switch, under i_mutex: the same cases, SEEK_CUR adds  *)
(* f_pos to the offset, and the early returns leave through "out".        *)
DefaultSwitch(t) ==
    /\ tpc[t] = "seek_switch" /\ vfs_llseek = "default"
    /\ LET c == call[t] IN
       \/ /\ c.origin = SEEK_CUR /\ c.arg = 0
          /\ DefaultSeekEarly(t, SeekReturn(c, fpos))
       \/ /\ c.origin = SEEK_CUR /\ c.arg /= 0
          /\ tpos' = [tpos EXCEPT ![t] = LoffAdd(c.arg, fpos)]
          /\ loaded' = [loaded EXCEPT ![t] = fpos]
          /\ raced' = [raced EXCEPT ![t] = FALSE]
          /\ Goto(t, "seek_exec") /\ UNCHANGED <<call, tret, imutex>>
       \/ /\ NoData(c)
          /\ DefaultSeekEarly(t, ENXIO)
       \/ /\ c.origin /= SEEK_CUR /\ ~NoData(c)
          /\ tpos' = [tpos EXCEPT ![t] = SeekTarget(c)]
          /\ Goto(t, "seek_exec") /\ UNCHANGED <<call, tret, imutex, loaded, raced>>
    /\ UNCHANGED <<fpos, fversion, isize, flock, impl, aio, mode, left>>

(* spin_lock(&file->f_lock) for a generic SEEK_CUR; mutex_lock of        *)
(* i_mutex at the top of default_llseek.                                  *)
SeekLock(t) ==
    /\ tpc[t] = "seek_lock"
    /\ \/ /\ vfs_llseek = "generic" /\ LockFree(flock)
          /\ flock' = t /\ Goto(t, "seek_load") /\ UNCHANGED imutex
       \/ /\ vfs_llseek = "default" /\ LockFree(imutex)
          /\ imutex' = t /\ Goto(t, "seek_switch") /\ UNCHANGED flock
    /\ UNCHANGED <<fpos, fversion, isize, impl, aio, mode, call, tpos, tret, left, loaded, raced>>

(* Under f_lock: the argument file->f_pos + offset of lseek_execute. *)
SeekLoad(t) ==
    /\ tpc[t] = "seek_load"
    /\ tpos' = [tpos EXCEPT ![t] = LoffAdd(fpos, call[t].arg)]
    /\ loaded' = [loaded EXCEPT ![t] = fpos]
    /\ raced' = [raced EXCEPT ![t] = FALSE]
    /\ Goto(t, "seek_exec")
    /\ UNCHANGED <<fpos, fversion, isize, flock, imutex, impl, aio, mode, call, tret, left>>

(* lseek_execute with s_maxbytes, spin_unlock if f_lock is held, and the *)
(* tail of the system call.  Without f_lock the store races.             *)
GenericExec(t) ==
    /\ tpc[t] = "seek_exec" /\ vfs_llseek = "generic"
    /\ LET r == lseek_execute(tpos[t], S_MAXBYTES) IN
       /\ SetPos(r)
       /\ IF flock = t
          THEN flock' = NoThread /\ Finish(t, SeekReturn(call[t], r))
          ELSE /\ UNCHANGED flock /\ Leave(t, SeekReturn(call[t], r))
               /\ IF r \notin Errors THEN MarkRaced(t) ELSE raced' = [raced EXCEPT ![t] = FALSE]
    /\ UNCHANGED <<isize, imutex, impl, aio, mode, left>>

(* The tail of default_llseek: EINVAL unless offset >= 0 or unsigned     *)
(* offsets, no s_maxbytes check, the store, and mutex_unlock.            *)
DefaultExec(t) ==
    /\ tpc[t] = "seek_exec" /\ vfs_llseek = "default"
    /\ LET r == IF tpos[t] >= 0 \/ unsigned_offsets THEN tpos[t] ELSE EINVAL IN
       /\ SetPos(r)
       /\ Finish(t, SeekReturn(call[t], r))
    /\ imutex' = NoThread
    /\ UNCHANGED <<isize, flock, impl, aio, mode, left>>

(* SYSCALL sendfile / sendfile64 without an offset: do_sendfile with    *)
(* ppos = &file->f_pos, up to do_splice_direct.  The checks read f_pos   *)
(* (rw_verify_area, then pos = *ppos, taken as one read); count is cut.  *)
SendfileBegin(t) ==
    /\ Enter(t)
    /\ \E c \in Calls[t] :
         /\ c.sys = "sendfile"
         /\ LET k == do_sendfile_check(fpos, c.arg, SendfileMax, FALSE) IN
            \/ k \in Errors /\ Finish(t, k)
            \/ /\ k \notin Errors
               /\ call' = [call EXCEPT ![t] = [c EXCEPT !.arg = k]]
               /\ Goto(t, "sf_splice")
               /\ UNCHANGED <<tpos, tret, loaded, raced>>
    /\ UNCHANGED <<fpos, fversion, isize, flock, imutex, impl, aio, mode>>

(* do_splice_direct(in_file, ppos, ...): it reads f_pos afresh and, if   *)
(* bytes moved, stores the advanced position with no lock.               *)
SendfileSplice(t) ==
    /\ tpc[t] = "sf_splice"
    /\ \E f \in FaultPoints(call[t]) : \E r \in {Splice(fpos, call[t].arg, f > 0)} :
       /\ tret' = [tret EXCEPT ![t] = r.ret]
       /\ tpos' = [tpos EXCEPT ![t] = r.pos]
       /\ IF r.ret \notin Errors /\ r.ret > 0
          THEN fpos' = r.pos /\ MarkRaced(t)
          ELSE UNCHANGED <<fpos, raced>>
    /\ Goto(t, "sf_return")
    /\ UNCHANGED <<fversion, isize, flock, imutex, impl, aio, mode, call, left, loaded>>

(* The tail of do_sendfile: f_pos is read again and compared with max. *)
SendfileReturn(t) ==
    /\ tpc[t] = "sf_return"
    /\ Finish(t, SendfileResult(tret[t], fpos, SendfileMax))
    /\ UNCHANGED <<fpos, fversion, isize, flock, imutex, impl, aio, mode, left>>

(* SYSCALL sendfile with an off_t offset (max MAX_NON_LFS) or sendfile64 *)
(* with a loff_t one (max 0, so s_maxbytes): do_sendfile on a local pos, *)
(* never touching f_pos; put_user of pos back is not state of the file.  *)
PositionalSendfile(t) ==
    /\ Enter(t)
    /\ \E c \in Calls[t] : \E f \in FaultPoints(c) :
         /\ c.sys \in {"sendfile_off", "sendfile64_off"}
         /\ LET max == IF c.sys = "sendfile_off" THEN MAX_NON_LFS ELSE SendfileMax
                k == do_sendfile_check(c.pos, c.arg, max, TRUE)
                r == Splice(c.pos, k, f > 0)
            IN  Finish(t, IF k \in Errors THEN k ELSE SendfileResult(r.ret, r.pos, max))
    /\ UNCHANGED <<fpos, fversion, isize, flock, imutex, impl, aio, mode>>

Step(t) ==
    \/ ReadWriteBegin(t) \/ ReadWriteExec(t) \/ ReadWriteStore(t)
    \/ PositionalReadWrite(t)
    \/ LseekBegin(t) \/ GenericSwitch(t) \/ DefaultSwitch(t)
    \/ SeekLock(t) \/ SeekLoad(t) \/ GenericExec(t) \/ DefaultExec(t)
    \/ SendfileBegin(t) \/ SendfileSplice(t) \/ SendfileReturn(t) \/ PositionalSendfile(t)

Next == \E t \in Threads : Step(t)

Spec == Init /\ [][Next]_vars

(* The steps of a call already made: a task inside a system call is a   *)
(* kernel thread the scheduler keeps running, so one that can take such *)
(* a step eventually does, and one spinning on f_lock or sleeping on    *)
(* i_mutex gets it once it stays free.  Making a call is up to the user *)
(* program, so entering one is not fair.                                 *)
InCall(t) ==
    \/ ReadWriteExec(t) \/ ReadWriteStore(t)
    \/ GenericSwitch(t) \/ DefaultSwitch(t)
    \/ SeekLock(t) \/ SeekLoad(t) \/ GenericExec(t) \/ DefaultExec(t)
    \/ SendfileSplice(t) \/ SendfileReturn(t)

FairSpec == Spec /\ \A t \in Threads : WF_vars(InCall(t))

(***************************************************************************)
(* Properties.                                                            *)
(***************************************************************************)
(* Without FMODE_UNSIGNED_OFFSET the file position is never negative,    *)
(* whatever lseek origins, offsets, i_size and read/write counts the     *)
(* tasks combine: lseek_execute, default_llseek and rw_verify_area all   *)
(* refuse a position that wrapped.                                       *)
FPosNonNegative == ~unsigned_offsets => fpos >= 0

(* The promise of the comment above generic_file_llseek_size: SEEK_CUR  *)
(* is synchronised against other SEEK_CURs (and under default_llseek    *)
(* against every lseek), only read, write and unlocked seeks race with  *)
(* it.  From the moment a SEEK_CUR reads f_pos until it stores, f_pos   *)
(* changes only by such an unlocked store.                              *)
SeekCurSerialized ==
    \A t \in Threads :
        tpc[t] = "seek_exec" /\ call[t].origin = SEEK_CUR /\ ~raced[t] => fpos = loaded[t]

(* read and write never move their own position backwards: the pos      *)
(* vfs_read/vfs_write hands back is at or after the one it was given,   *)
(* as an unsigned offset under FMODE_UNSIGNED_OFFSET and as a signed    *)
(* one otherwise, so rw_verify_area stops every wrap.                   *)
Ord(x) == IF unsigned_offsets THEN AsSize(x) ELSE x
RwNeverRewinds ==
    [][\A t \in Threads :
         tpc[t] = "rw_exec" /\ tpc'[t] = "rw_store" => Ord(tpos'[t]) >= Ord(tpos[t])]_vars

(* What read, write, readv and writev return accounts for the position  *)
(* they store back: a failed call leaves it where file_pos_read found    *)
(* it, a successful one moves it by exactly the count it returns, and    *)
(* that count is at most MAX_RW_COUNT.  A vector is clamped in           *)
(* rw_copy_check_uvector and transferred segment by segment, and a       *)
(* driver failing on a later segment must not hide the bytes the earlier *)
(* ones moved.                                                            *)
TransferAccounted ==
    [][\A t \in Threads :
         tpc[t] = "rw_exec" /\ tpc'[t] = "rw_store" =>
           IF tret'[t] \in Errors THEN tpos'[t] = tpos[t]
           ELSE /\ tpos'[t] = LoffAdd(tpos[t], tret'[t])
                /\ tret'[t] <= MAX_RW_COUNT]_vars

(* Every call a task starts returns: no path leaves f_lock or i_mutex    *)
(* held, and no task waits for a lock forever.                          *)
AllCallsReturn == \A t \in Threads : tpc[t] /= "idle" ~> tpc[t] = "idle"
==============================================================================
