------------------------------ MODULE MC_FilePos ------------------------------
(***************************************************************************)
(* Two tasks sharing one file, with loff_t of 4 bits (-8..7) and off_t of *)
(* 3 bits (-4..3), so that SEEK_END, SEEK_CUR and read/write reach the    *)
(* wrap and the lseek EOVERFLOW within a few calls.                        *)
(***************************************************************************)
EXTENDS FilePos

Rw(s, n)        == [sys |-> s, arg |-> n, origin |-> 0, pos |-> 0, vec |-> <<>>]
At(s, p, n)     == [sys |-> s, arg |-> n, origin |-> 0, pos |-> p, vec |-> <<>>]
Seek(s, o, off) == [sys |-> s, arg |-> off, origin |-> o, pos |-> 0, vec |-> <<>>]
Vec(s, p, v)    == [sys |-> s, arg |-> 0, origin |-> 0, pos |-> p, vec |-> v]

(* Task t1 makes the read/write family of calls and two seeks: read 2,  *)
(* write 2, pread at 1, pwrite at -1 (EINVAL), readv of 3 + 2 (cut to    *)
(* 3 + 1 by MAX_RW_COUNT), writev of 1 + 1 (a driver failing on the      *)
(* second segment leaves a partial transfer), SEEK_CUR by -2 and          *)
(* SEEK_SET -1 (kept only with unsigned offsets).  Task t2 seeks:         *)
(* SEEK_CUR by 0 (the position query) and by -2, SEEK_END 3 (7 with      *)
(* i_size 4: past s_maxbytes for generic, past off_t for lseek), llseek  *)
(* SEEK_DATA 5 (ENXIO) and SEEK_HOLE 1, an origin past SEEK_MAX; and it  *)
(* calls preadv at 1 with a second length negative as ssize_t and        *)
(* pwritev with three segments (more than UIO_MAXIOV).  Every racing     *)
(* pair the properties are about has one call in each task.               *)
MC_Threads == {"t1", "t2"}
MC_Calls ==
    [t \in MC_Threads |->
       IF t = "t1"
       THEN { Rw("read", 2), Rw("write", 2), At("pread", 1, 2), At("pwrite", -1, 1),
              Vec("readv", 0, <<3, 2>>), Vec("writev", 0, <<1, 1>>),
              Seek("lseek", SEEK_CUR, -2), Seek("lseek", SEEK_SET, -1),
              Rw("sendfile", 3) }
       ELSE { Seek("lseek", SEEK_CUR, 0), Seek("lseek", SEEK_CUR, -2),
              Seek("lseek", SEEK_END, 3), Seek("llseek", SEEK_DATA, 5),
              Seek("llseek", SEEK_HOLE, 1), Seek("lseek", 5, 0),
              Vec("preadv", 1, <<2, 9>>), Vec("pwritev", 0, <<1, 1, 1>>),
              At("sendfile_off", 2, 3) }]

(* ->llseek and the presence of aio_read/aio_write go together: a       *)
(* regular file of a disk filesystem has generic_file_llseek and the     *)
(* generic aio methods, character devices have default_llseek,           *)
(* noop_llseek or none with plain ->read/->write.                        *)
MC_FileOps ==
    { [llseek |-> "generic", aio |-> TRUE], [llseek |-> "default", aio |-> FALSE],
      [llseek |-> "noop", aio |-> FALSE], [llseek |-> "none", aio |-> FALSE] }

(* A regular file opened read-write, the same with unsigned offsets (as  *)
(* /dev/mem), and one opened read-only without FMODE_PREAD/PWRITE (write *)
(* gives EBADF, pread64 ESPIPE).                                          *)
Full == {"READ", "WRITE", "LSEEK", "PREAD", "PWRITE"}
MC_Modes == {Full, Full \cup {"UNSIGNED_OFFSET"}, {"READ", "LSEEK"}}
==============================================================================
