-------------------------------- MODULE Search --------------------------------
(***************************************************************************)
(* The search system call of fs/read_write.c: SYSCALL_DEFINE5(search)     *)
(* walks each root of a '|'-separated list, either through the literal    *)
(* shortcut or through search_directory, the depth-bounded recursive      *)
(* walker, and serialises matches with copy_search_result into the        *)
(* caller's buffer.  The recursion is an explicit stack of frames, one    *)
(* per dirs[n]; only the top frame runs.  The filesystem is a constant:   *)
(* FS maps each canonical directory path to its entries in readdir order. *)
(***************************************************************************)
EXTENDS Match, SequencesExt, FiniteSets

CONSTANTS
    FS,            \* [canonical dir path -> Seq([name, type])], type "d" or "o"
    Unreadable,    \* directories that cannot be opened or searched (EACCES)
    NativeDirs,    \* directories whose f_op provides ->search
    PathsArgs,     \* the paths arguments tried: roots joined by '|'
    PatternArgs,   \* the pattern arguments tried
    FlagArgs,      \* the flags tried: subsets of {"STOPATFIRST", "METADATA", "INCLUDEROOT"}
    LenArgs,       \* the buffer sizes tried
    TREE_DEPTH,    \* 16 in the code
    PATH_MAX,      \* bytes of ds->path, less its NUL
    SEARCH_BUF,    \* bytes of the dirs[n].entries listing buffer
    MetaLen,       \* characters of the metadata field of a record
    AllocCanFail,  \* may kmalloc return NULL?
    EnvFailures,   \* may lookup and getattr fail (entries removed meanwhile)?
    DriverErrors   \* may a native ->search fail?

Entry == [name : Seq(STRING), type : {"d", "o"}]
ASSUME \A d \in DOMAIN FS : FS[d] \in Seq(Entry)

(* Error codes, model values; a status is 0 (or a count) or one of these. *)
CONSTANTS ENOENT, EACCES, EPERM, ENODEV, ENOTDIR, ENAMETOOLONG, ERANGE, ENOMEM,
          EIO, EDRIVER
Errors == {ENOENT, EACCES, EPERM, ENODEV, ENOTDIR, ENAMETOOLONG, ERANGE, ENOMEM,
           EIO, EDRIVER}
OK == 0

Slash == <<"/">>
Dot == <<".">>
DotDot == <<".", ".">>

(* The arguments of the call; they do not change during it.  expected is *)
(* a ghost: the matches the specification asks for of these arguments,  *)
(* SpecSearch below, computed once when the call starts.                 *)
VARIABLES paths, pattern, flags, buflen, expected
inputs == <<paths, pattern, flags, buflen, expected>>

(* Split s at every c, keeping empty fields. *)
SplitOn(s, c) ==
    LET cuts == <<0>> \o SelectSeq([j \in 1..Len(s) |-> j], LAMBDA j : s[j] = c) \o <<Len(s) + 1>>
    IN  [k \in 1..(Len(cuts) - 1) |-> SubSeq(s, cuts[k] + 1, cuts[k + 1] - 1)]

(* strsep(&n, "|") over the paths argument: every field, empty ones too. *)
Roots == SplitOn(paths, "|")

(* The canonical form the kernel gives a path (d_absolute_path): repeated *)
(* '/' collapse and a trailing '/' goes, except for the root "/".         *)
Canon(s) ==
    LET c == FoldLeft(LAMBDA acc, ch : IF ch = "/" /\ acc /= <<>> /\ acc[Len(acc)] = "/"
                                       THEN acc ELSE Append(acc, ch), <<>>, s)
    IN  IF Len(c) > 1 /\ c[Len(c)] = "/" THEN SubSeq(c, 1, Len(c) - 1) ELSE c

Join(d, name) == Canon(d \o Slash \o name)
Files == UNION {{Join(d, FS[d][i].name) : i \in {j \in DOMAIN FS[d] : FS[d][j].type = "o"}}
         : d \in DOMAIN FS}

(* filp_open(path, O_DIRECTORY|O_RDONLY|O_LARGEFILE, 0) *)
filp_open(p) ==
    IF Canon(p) \in DOMAIN FS
    THEN IF Canon(p) \in Unreadable THEN EACCES ELSE OK
    ELSE IF Canon(p) \in Files THEN ENOTDIR ELSE ENOENT

(* The open errors search_directory skips: the branch is left out. *)
SkippedOpenErrors == {ENOENT, EPERM, EACCES, ENODEV}

(* search_filldir: entries are copied while SEARCH_BUF has room for the  *)
(* type byte, the name, its NUL and the list's final NUL.                *)
RECURSIVE search_filldir(_, _)
search_filldir(es, room) ==
    IF es = <<>> \/ room < Len(Head(es).name) + 3 THEN <<>>
    ELSE <<Head(es)>> \o search_filldir(Tail(es), room - (Len(Head(es).name) + 2))

(* One vfs_readdir call from directory position pos. *)
vfs_readdir(d, pos) == search_filldir(SubSeq(FS[d], pos + 1, Len(FS[d])), SEARCH_BUF)

(* Bytes of the record sprintf'd by copy_search_result for path text t:  *)
(* "0|" t "||" or "0|" t "|" metadata "|".                               *)
RecLen(t) == Len(t) + 4 + (IF "METADATA" \in flags THEN MetaLen ELSE 0)

(* Outcomes of a lookup or getattr of an entry listed a moment ago. *)
LookupOutcomes == IF EnvFailures THEN {OK, ENOENT} ELSE {OK}
GetattrOutcomes == IF EnvFailures /\ "METADATA" \in flags THEN {OK, EIO} ELSE {OK}

(***************************************************************************)
(* The number of leading '/' SYSCALL_DEFINE5 strips from a literal pattern. *)
LeadingSlashesOf(p) ==
    LET ks == {k \in 0..Len(p) : \A i \in 1..k : p[i] = "/"} IN
    CHOOSE k \in ks : \A j \in ks : j <= k

(***************************************************************************)
(* The reference walk: the matches spec.md 4.4 asks for, in depth-first   *)
(* listing order, as canonical paths.  d is a canonical directory, rel    *)
(* the path below the root ("/a/b"), k the depth of d.                    *)
(***************************************************************************)
RECURSIVE SpecWalk(_, _, _), SpecEntries(_, _, _, _)
SpecWalk(d, rel, k) ==
    IF k >= TREE_DEPTH \/ d \in Unreadable THEN <<>> ELSE SpecEntries(d, rel, k, FS[d])

SpecEntries(d, rel, k, es) ==
    IF es = <<>> THEN <<>>
    ELSE LET e == Head(es)
             r == rel \o Slash \o e.name
             how == match_pathname(r, pattern)
             descend == e.type = "d" /\ e.name \notin {Dot, DotDot}
                        /\ (how = PARTIAL \/ isrecursive(pattern))
         IN  (IF how = SUCCESS THEN <<Join(d, e.name)>> ELSE <<>>)
             \o (IF descend THEN SpecWalk(Join(d, e.name), r, k + 1) ELSE <<>>)
             \o SpecEntries(d, rel, k, Tail(es))

(* The matches of a walk of every root, root after root. *)
SpecWalkAll ==
    FlattenSeq([i \in 1..Len(Roots) |->
                  IF filp_open(Roots[i]) = OK THEN SpecWalk(Canon(Roots[i]), <<>>, 0)
                  ELSE <<>>])

(* spec.md 4.5's literal shortcut: each root, then the pattern below it. *)
SpecLiteral ==
    LET name == SubSeq(pattern, LeadingSlashesOf(pattern) + 1, Len(pattern)) IN
    FlattenSeq([i \in 1..Len(Roots) |->
                  IF Canon(Roots[i]) \in DOMAIN FS \cup Files
                     /\ Canon(Roots[i] \o Slash \o name) \in DOMAIN FS \cup Files
                  THEN <<Canon(Roots[i] \o Slash \o name)>> ELSE <<>>])

SpecSearch ==
    LET all == IF ispattern(pattern) THEN SpecWalkAll ELSE SpecLiteral IN
    IF "STOPATFIRST" \in flags THEN SubSeq(all, 1, IF all = <<>> THEN 0 ELSE 1)
    ELSE all

(***************************************************************************)
(* State.                                                                 *)
(***************************************************************************)
VARIABLES
    pc,        \* "start", "roots" (the strsep loop), "walk" (in search_directory), "done"
    status,    \* the value the system call returns, once pc = "done"
    results,   \* ds->results
    next,      \* ds->next - ds->buf: bytes the caller's cursor has advanced
    len,       \* ds->len: bytes the code believes are left
    hw,        \* one past the highest byte of the user buffer written
    out,       \* the record texts written, in order
    found,     \* canonical paths of the entries reported (history)
    path,      \* ds->path
    base,      \* ds->base
    stack,     \* the frames dirs[0..n] of the active search_directory calls
    openfps,   \* files opened by filp_open and not yet closed
    rootIdx,   \* the root strsep returns next
    patOff     \* how far ds->pattern has been advanced past getname's buffer

vars == <<paths, pattern, flags, buflen, expected, pc, status, results, next, len, hw, out, found, path, base, stack,
          openfps, rootIdx, patOff>>

(* A frame: dir is the truncation offset dirs[n].dir, batch what is left *)
(* of the current listing, pos the directory position, fsdir the open    *)
(* directory.  Every frame below the top is inside its entry loop, so    *)
(* its file is open.                                                      *)
Frame == [dir : Nat, batch : Seq(Entry), pos : Nat, fsdir : Seq(STRING),
          phase : {"enter", "entry"}]

Top == stack[Len(stack)]
depth == Len(stack) - 1          \* search_directory's n
Max2(a, b) == IF a >= b THEN a ELSE b
Below == IF stack = <<>> THEN 0 ELSE Len(stack) - 1   \* open frames under the top

NewFrame == [dir |-> 0, batch |-> <<>>, pos |-> 0, fsdir |-> <<>>, phase |-> "enter"]

(* The ds->pattern the loop uses: leading '/' stripped for a literal one. *)
LiteralPattern == SubSeq(pattern, patOff + 1, Len(pattern))

(* kern_path(path, LOOKUP_FOLLOW): any existing file or directory. *)
kern_path(p) == IF Canon(p) \in DOMAIN FS \cup Files THEN OK ELSE ENOENT

(* vfs_path_lookup(dentry of d, name, 0), component by component: each  *)
(* step needs a searchable directory and an existing next component; the *)
(* first step that fails gives the error.                                 *)
LookupStep(cur, nxt) ==
    IF cur \in Files THEN ENOTDIR
    ELSE IF cur \in Unreadable THEN EACCES
    ELSE IF nxt \notin DOMAIN FS \cup Files THEN ENOENT
    ELSE OK

vfs_path_lookup(d, name) ==
    LET comps == SelectSeq(SplitOn(name, "/"), LAMBDA x : x /= <<>>)
        walk == [k \in 0..Len(comps) |-> Canon(d \o FlattenSeq([i \in 1..k |-> Slash \o comps[i]]))]
        errs == SelectSeq([k \in 1..Len(comps) |-> LookupStep(walk[k - 1], walk[k])],
                          LAMBDA e : e /= OK)
    IN  IF errs = <<>> THEN OK ELSE Head(errs)

(***************************************************************************)
(* Pieces of the handlers, shared by the actions below.                   *)
(***************************************************************************)
(* copy_search_result: the record and two NULs must fit in len; the      *)
(* cursor then moves over the record only, so the NULs are overwritten by *)
(* the next record.                                                       *)
(* Mutants: the check forgets the two NULs, or is missing. *)
FitsNoNuls(t) == RecLen(t) <= len
FitsAlways(t) == TRUE

Fits(t) == RecLen(t) + 2 <= len

Emit(t, p) ==
    /\ out' = Append(out, t)
    /\ found' = Append(found, p)
    /\ next' = next + RecLen(t)
    /\ len' = len - RecLen(t)
    /\ results' = results + 1

NoOutput == UNCHANGED <<results, next, len, out, found>>

(* The highest byte written by copy_to_user for record t. *)
RecordEnd(t) == Max2(hw, next + RecLen(t) + 2)

(* The tail of SYSCALL_DEFINE5 after the loop, with the cursor at nx,    *)
(* the high-water mark at h and r results: when a record was written     *)
(* (buf != next) the two bytes at nx-1 become NULs; r is returned.       *)
Finish(nx, h, r) ==
    /\ hw' = IF nx /= 0 THEN Max2(h, nx + 1) ELSE h
    /\ status' = r
    /\ pc' = "done"

(* An error reaches the system call through every frame's "goto exit",   *)
(* each closing its file.  fps counts the files open at this point;      *)
(* closeTop is FALSE when the top frame has no file or took "goto out".  *)
(* Mutant: the failing frame takes "goto out" and leaves its file open. *)
AbortLeavingTop(err, fps, closeTop) ==
    /\ openfps' = fps - Below
    /\ stack' = <<>>
    /\ status' = err
    /\ pc' = "done"
    /\ UNCHANGED rootIdx

Abort(err, fps, closeTop) ==
    /\ openfps' = fps - Below - (IF closeTop THEN 1 ELSE 0)
    /\ stack' = <<>>
    /\ status' = err
    /\ pc' = "done"
    /\ UNCHANGED rootIdx

(* The top search_directory call returns 0, closing its file if open.   *)
(* At depth 0 the caller is the root loop: break on STOPATFIRST with a   *)
(* result (r > 0), else the next root.  Deeper, the caller stops on      *)
(* STOPATFIRST with a result, every level exiting in turn, else          *)
(* truncates ds->path at its dir offset and goes on with its next entry. *)
(* nx, h, r are the cursor, high-water mark and results after the call, *)
(* pth the ds->path the callee leaves.                                    *)
(* Mutant: the STOPATFIRST check after a nested search_directory is      *)
(* missing; only the root loop's check remains.                           *)
ReturnCheckAtRootOnly(fps, closeSelf, nx, h, r, pth) ==
    LET fps1 == fps - (IF closeSelf THEN 1 ELSE 0) IN
    IF r > 0 /\ "STOPATFIRST" \in flags /\ Len(stack) = 1
    THEN /\ openfps' = fps1
         /\ stack' = <<>>
         /\ Finish(nx, h, r)
         /\ path' = pth
         /\ UNCHANGED rootIdx
    ELSE IF Len(stack) = 1
    THEN /\ openfps' = fps1
         /\ stack' = <<>>
         /\ pc' = "roots"
         /\ rootIdx' = rootIdx + 1
         /\ hw' = h
         /\ path' = pth
         /\ UNCHANGED status
    ELSE /\ openfps' = fps1
         /\ stack' = SubSeq(stack, 1, Len(stack) - 1)
         /\ path' = SubSeq(pth, 1, stack[Len(stack) - 1].dir)
         /\ hw' = h
         /\ UNCHANGED <<pc, status, rootIdx>>

Return(fps, closeSelf, nx, h, r, pth) ==
    LET fps1 == fps - (IF closeSelf THEN 1 ELSE 0) IN
    IF r > 0 /\ "STOPATFIRST" \in flags
    THEN /\ openfps' = fps1 - Below
         /\ stack' = <<>>
         /\ Finish(nx, h, r)
         /\ path' = pth
         /\ UNCHANGED rootIdx
    ELSE IF Len(stack) = 1
    THEN /\ openfps' = fps1
         /\ stack' = <<>>
         /\ pc' = "roots"
         /\ rootIdx' = rootIdx + 1
         /\ hw' = h
         /\ path' = pth
         /\ UNCHANGED status
    ELSE /\ openfps' = fps1
         /\ stack' = SubSeq(stack, 1, Len(stack) - 1)
         /\ path' = SubSeq(pth, 1, stack[Len(stack) - 1].dir)
         /\ hw' = h
         /\ UNCHANGED <<pc, status, rootIdx>>

(***************************************************************************)
(* Actions.                                                               *)
(***************************************************************************)
Init ==
    /\ paths \in PathsArgs
    /\ pattern \in PatternArgs
    /\ flags \in FlagArgs
    /\ buflen \in LenArgs
    /\ expected = SpecSearch
    /\ pc = "start"
    /\ status = 0
    /\ results = 0
    /\ next = 0
    /\ len = buflen
    /\ hw = 0
    /\ out = <<>>
    /\ found = <<>>
    /\ path = <<>>
    /\ base = 0
    /\ stack = <<>>
    /\ openfps = 0
    /\ rootIdx = 1
    /\ patOff = 0

(* SYSCALL_DEFINE5 up to the root loop: allocation, isrecursive,          *)
(* ispattern, and for a literal pattern the stripping of leading '/'.     *)
(* When kmalloc of ds->dirs fails the code jumps to exit3 with status 0.  *)
Start ==
    /\ pc = "start"
    /\ \/ /\ AllocCanFail
          /\ status' = ENOMEM /\ pc' = "done"
          /\ UNCHANGED patOff
       \/ /\ AllocCanFail /\ ispattern(pattern)
          /\ pc' = "done"
          /\ UNCHANGED <<status, patOff>>
       \/ /\ pc' = "roots"
          /\ patOff' = IF ispattern(pattern) THEN 0 ELSE LeadingSlashesOf(pattern)
          /\ UNCHANGED status
    /\ UNCHANGED <<results, next, len, hw, out, found, path, base, stack, openfps, rootIdx>>
    /\ UNCHANGED inputs

(* One turn of the strsep loop for a pattern: strcpy the root into       *)
(* ds->path, reset base and call search_directory(ds, 0); or, after the  *)
(* last root, the tail of the system call.                                *)
NextRoot ==
    /\ pc = "roots"
    /\ \/ /\ rootIdx > Len(Roots)
          /\ Finish(next, hw, results)
          /\ UNCHANGED <<path, base, stack, rootIdx>>
       \/ /\ rootIdx <= Len(Roots) /\ ispattern(pattern)
          /\ path' = Roots[rootIdx]
          /\ base' = 0
          /\ stack' = <<NewFrame>>
          /\ pc' = "walk"
          /\ UNCHANGED <<status, hw, rootIdx>>
    /\ UNCHANGED <<results, next, len, out, found, openfps, patOff>>
    /\ UNCHANGED inputs

(* One turn of the strsep loop for a literal pattern: kern_path on the   *)
(* root, vfs_path_lookup of the pattern below it, vfs_getattr when        *)
(* METADATA, and copy_search_result of the whole path or of the part     *)
(* after the root.  ENOENT from either lookup moves to the next root;    *)
(* any other error ends the call.                                         *)
LiteralRoot ==
    /\ pc = "roots" /\ rootIdx <= Len(Roots) /\ ~ispattern(pattern)
    /\ LET r == Roots[rootIdx]
           p == r \o Slash \o LiteralPattern
           lk == vfs_path_lookup(Canon(r), LiteralPattern)
           t == IF "INCLUDEROOT" \in flags THEN p ELSE SubSeq(p, Len(r) + 1, Len(p))
       IN
       \/ /\ kern_path(r) = ENOENT
          /\ path' = r /\ rootIdx' = rootIdx + 1
          /\ UNCHANGED <<pc, status, hw, base>> /\ NoOutput
       \/ /\ kern_path(r) = OK /\ lk = ENOENT
          /\ path' = p /\ base' = Len(r) /\ rootIdx' = rootIdx + 1
          /\ UNCHANGED <<pc, status, hw>> /\ NoOutput
       \/ /\ kern_path(r) = OK /\ lk \notin {OK, ENOENT}
          /\ path' = p /\ base' = Len(r)
          /\ Abort(lk, openfps, FALSE)
          /\ UNCHANGED hw /\ NoOutput
       \/ /\ kern_path(r) = OK /\ lk = OK
          /\ path' = p /\ base' = Len(r)
          /\ \E ga \in GetattrOutcomes :
               \/ /\ ga /= OK
                  /\ Abort(ga, openfps, FALSE) /\ UNCHANGED hw /\ NoOutput
               \/ /\ ga = OK /\ ~Fits(t)
                  /\ Abort(ERANGE, openfps, FALSE) /\ UNCHANGED hw /\ NoOutput
               \/ /\ ga = OK /\ Fits(t)
                  /\ Emit(t, Canon(p))
                  /\ IF "STOPATFIRST" \in flags
                     THEN Finish(next + RecLen(t), RecordEnd(t), results + 1) /\ UNCHANGED rootIdx
                     ELSE rootIdx' = rootIdx + 1 /\ hw' = RecordEnd(t) /\ UNCHANGED <<pc, status>>
    /\ UNCHANGED <<stack, openfps, patOff>>
    /\ UNCHANGED inputs

(* The native ->search of directory d, rel its path below the root.  The *)
(* driver is outside this repository: it is taken to write the records   *)
(* of the matches below d, as the walk would find them, when they fit,   *)
(* and to return one int.  The code adds that int to results and to the *)
(* cursor alike, so the driver may return either the count or the bytes; *)
(* a negative return takes "goto out", past filp_close.                   *)
NativeSearch(d, rel) ==
    LET R == SpecWalk(d, rel, depth)
        B == FoldLeft(LAMBDA a, x : a + RecLen(x), 0, R)
    IN
    \/ /\ DriverErrors \/ B + 2 > len
       /\ Abort(EDRIVER, openfps + 1, FALSE)
       /\ path' = d
       /\ UNCHANGED hw /\ NoOutput
    \/ /\ B + 2 <= len
       /\ \E dc \in {Len(R), B} :
            /\ results' = results + dc
            /\ next' = next + dc
            /\ len' = len - dc
            /\ out' = out \o R
            /\ found' = found \o R
            /\ Return(openfps + 1, TRUE, next + dc,
                      IF R = <<>> THEN hw ELSE Max2(hw, next + B + 2), results + dc, d)

(* Mutant: the depth check lets one level more through. *)
DepthExceededLate(n) == n > TREE_DEPTH

(* if (n >= TREE_DEPTH) return 0; *)
DepthExceeded(n) == n >= TREE_DEPTH

(* if (ds->base == 0) ds->base = strlen(ds->path): the root's length.    *)
SetBase(b, canon) == IF b = 0 THEN Len(canon) ELSE b

(* search_directory(ds, n) up to its entry loop: the depth bound,        *)
(* filp_open (skipping ENOENT, EPERM, EACCES, ENODEV), abspath, setting  *)
(* base on the first call of a root, and the native ->search of the      *)
(* directory's filesystem when it has one.                                *)
Enter ==
    /\ pc = "walk" /\ Top.phase = "enter"
    /\ LET op == filp_open(path)
           canon == Canon(path)
           base1 == SetBase(base, canon)
       IN
       \/ /\ DepthExceeded(depth)
          /\ Return(openfps, FALSE, next, hw, results, path)
          /\ UNCHANGED base /\ NoOutput
       \/ /\ ~DepthExceeded(depth) /\ op \in SkippedOpenErrors
          /\ Return(openfps, FALSE, next, hw, results, path)
          /\ UNCHANGED base /\ NoOutput
       \/ /\ ~DepthExceeded(depth) /\ op \notin SkippedOpenErrors \cup {OK}
          /\ Abort(op, openfps, FALSE)
          /\ UNCHANGED <<hw, path, base>> /\ NoOutput
       \/ /\ ~DepthExceeded(depth) /\ op = OK /\ Len(canon) + 1 > PATH_MAX
          /\ Abort(ENAMETOOLONG, openfps + 1, TRUE)
          /\ UNCHANGED <<hw, path, base>> /\ NoOutput
       \/ /\ ~DepthExceeded(depth) /\ op = OK /\ Len(canon) + 1 <= PATH_MAX
          /\ canon \notin NativeDirs
          /\ path' = canon /\ base' = base1
          /\ stack' = [stack EXCEPT ![Len(stack)] = [NewFrame EXCEPT !.phase = "entry", !.fsdir = canon]]
          /\ openfps' = openfps + 1
          /\ UNCHANGED <<pc, status, hw, rootIdx>> /\ NoOutput
       \/ /\ ~DepthExceeded(depth) /\ op = OK /\ Len(canon) + 1 <= PATH_MAX
          /\ canon \in NativeDirs
          /\ base' = base1
          /\ NativeSearch(canon, SubSeq(canon, base1 + 1, Len(canon)))
    /\ UNCHANGED patOff
    /\ UNCHANGED inputs

(* The do/while around vfs_readdir: list the next batch of entries into  *)
(* dirs[n].entries and remember where ds->path ends; an empty batch ends *)
(* the loop and the call returns 0 after filp_close.                     *)
ReadDir ==
    /\ pc = "walk" /\ Top.phase = "entry" /\ Top.batch = <<>>
    /\ LET b == vfs_readdir(Top.fsdir, Top.pos) IN
       \/ /\ b /= <<>>
          /\ stack' = [stack EXCEPT ![Len(stack)].batch = b,
                                    ![Len(stack)].pos = @ + Len(b),
                                    ![Len(stack)].dir = Len(path)]
          /\ UNCHANGED <<pc, status, hw, path, openfps, rootIdx>>
       \/ /\ b = <<>>
          /\ Return(openfps, TRUE, next, hw, results, path)
    /\ UNCHANGED <<base, patOff>> /\ NoOutput
    /\ UNCHANGED inputs

(* One turn of the entry loop: append "/" and the name to ds->path,      *)
(* match_pathname on the part after base; on SUCCESS vfs_path_lookup,    *)
(* vfs_getattr when METADATA, copy_search_result of the whole path       *)
(* (INCLUDEROOT) or of the entry name, count it and stop on STOPATFIRST; *)
(* then recurse into a directory other than "." and ".." on PARTIAL or a *)
(* recursive pattern, or truncate ds->path back to dir.                  *)
ProcessEntry ==
    /\ pc = "walk" /\ Top.phase = "entry" /\ Top.batch /= <<>>
    /\ LET e == Head(Top.batch)
           p == path \o Slash \o e.name
           how == match_pathname(SubSeq(p, base + 1, Len(p)), pattern)
           t == IF "INCLUDEROOT" \in flags THEN p ELSE e.name
           descend == /\ e.type = "d" /\ e.name \notin {Dot, DotDot}
                      /\ (how = PARTIAL \/ isrecursive(pattern))
           rest == [stack EXCEPT ![Len(stack)].batch = Tail(@)]
           Continue ==
               /\ IF descend
                  THEN stack' = Append(rest, NewFrame) /\ path' = p
                  ELSE stack' = rest /\ path' = SubSeq(p, 1, Top.dir)
               /\ UNCHANGED <<pc, status, openfps, rootIdx>>
       IN
       \/ /\ how /= SUCCESS
          /\ Continue /\ UNCHANGED hw /\ NoOutput
       \/ /\ how = SUCCESS
          /\ \E lk \in LookupOutcomes, ga \in GetattrOutcomes :
               \/ /\ lk /= OK
                  /\ Abort(lk, openfps, TRUE) /\ path' = p /\ UNCHANGED hw /\ NoOutput
               \/ /\ lk = OK /\ ga /= OK
                  /\ Abort(ga, openfps, TRUE) /\ path' = p /\ UNCHANGED hw /\ NoOutput
               \/ /\ lk = OK /\ ga = OK /\ ~Fits(t)
                  /\ Abort(ERANGE, openfps, TRUE) /\ path' = p /\ UNCHANGED hw /\ NoOutput
               \/ /\ lk = OK /\ ga = OK /\ Fits(t)
                  /\ Emit(t, Canon(p))
                  /\ IF "STOPATFIRST" \in flags
                     THEN Return(openfps, TRUE, next + RecLen(t), RecordEnd(t), results + 1, p)
                     ELSE Continue /\ hw' = RecordEnd(t)
    /\ UNCHANGED <<base, patOff>>
    /\ UNCHANGED inputs

Next == Start \/ NextRoot \/ LiteralRoot \/ Enter \/ ReadDir \/ ProcessEntry

Spec == Init /\ [][Next]_vars

(* The promise of the call, AbstractSearch, seen through the state: the  *)
(* matches are expected, SpecSearch of the arguments, the buffer holds found, and  *)
(* the call has returned status once pc is "done".                       *)
AS == INSTANCE AbstractSearch WITH
          target <- expected, reported <- found, done <- (pc = "done"), ret <- status

(***************************************************************************)
(* Properties.                                                            *)
(***************************************************************************)
TypeOK ==
    /\ pc \in {"start", "roots", "walk", "done"}
    /\ status \in Nat \cup Errors
    /\ results \in Nat /\ next \in Nat /\ hw \in Nat
    /\ len \in Nat
    /\ out \in Seq(Seq(STRING)) /\ found \in Seq(Seq(STRING))
    /\ stack \in Seq(Frame)
    /\ openfps \in Nat /\ rootIdx \in Nat /\ patOff \in Nat

(* copy_search_result and the final "\0\0" never write past the caller's *)
(* len bytes: the record, its two NULs and the closing pair at next-1    *)
(* all stay inside the buffer, however records, roots and native        *)
(* searches follow one another.                                           *)
OutputWithinBuffer == hw <= buflen

(* The count the call returns is the number of records in the buffer,   *)
(* and the cursor has moved over exactly those records' bytes.          *)
ResultsCountRecords ==
    /\ results = Len(out)
    /\ next = FoldLeft(LAMBDA a, x : a + RecLen(x), 0, out)

(* With STOPATFIRST the call reports at most one match, across all the  *)
(* levels of the walk and all roots.                                     *)
StopAtFirst == "STOPATFIRST" \in flags => results <= 1

(* A call that returns a count has reported exactly the matches the      *)
(* specification's walk finds, in depth-first listing order, root after  *)
(* root (only the first with STOPATFIRST), and that count.               *)
FindsSpecMatches ==
    pc = "done" /\ status \in Nat => found = expected /\ status = Len(found)

(* Every directory search_directory opened has been closed when the call *)
(* returns.                                                               *)
FilesReleased == pc = "done" => openfps = 0

(* ds->path, PATH_MAX+1 bytes, holds the path and its NUL. *)
PathFits == Len(path) <= PATH_MAX

(* The exit3 label hands putname the pointer getname returned for the   *)
(* pattern: ds->pattern has not moved from the start of its buffer when  *)
(* the call returns, whatever branch the pattern took.                    *)
PatternFreedWhole == pc = "done" => patOff = 0

(* The walk, the literal shortcut, the native searches and the exits    *)
(* together implement AbstractSearch's ordering: every step that writes  *)
(* records extends the buffer to a longer prefix of the specification's  *)
(* matches, an error return leaves a prefix, and a count return comes    *)
(* only once all of them are written, however the records of nested      *)
(* frames, batches and roots follow one another.                          *)
ImplementsAbstractSearch == AS!SafeSpec
==============================================================================
