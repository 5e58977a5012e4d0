-------------------------------- MODULE Match --------------------------------
(***************************************************************************)
(* The pattern matcher of the search system call (fs/read_write.c):       *)
(* __match_pathname, match_pathname, ispattern and isrecursive, as pure    *)
(* operators over C strings.  A C string is a sequence of one-character    *)
(* strings; the terminating NUL is not part of the sequence and reading    *)
(* past the end yields NUL.                                                *)
(***************************************************************************)
EXTENDS Naturals, Sequences

CONSTANT MatchDepth   \* the recursion bound of __match_pathname (8 in the code)

ASSUME MatchDepth \in Nat \ {0}

(* enum search_matched *)
FAILURE  == "FAILURE"
PARTIAL  == "PARTIAL"
SUCCESS  == "SUCCESS"
OVERFLOW == "OVERFLOW"
Outcomes == {FAILURE, PARTIAL, SUCCESS, OVERFLOW}

NUL == "NUL"

(* s[0] in C: the first character, or NUL at the end of the string. *)
Ch(s) == IF s = <<>> THEN NUL ELSE Head(s)

(* s+1 in C, for a string that is not at its end. *)
Next1(s) == Tail(s)

(* Mutant: a filename character test that forgets the separator. *)
is_filename_any(c) == c /= NUL

(* #define is_filename(c) ((c) != '/' && (c) != '\0') *)
is_filename(c) == c \notin {"/", NUL}

(***************************************************************************)
(* __match_pathname(n, pathname, pattern).  The while(1) loop is          *)
(* MatchLoop, which iterates without raising n; every nested call of the  *)
(* C function raises n and goes through the depth check.                  *)
(***************************************************************************)
RECURSIVE __match_pathname(_, _, _), MatchLoop(_, _, _), MatchStar(_, _, _)

__match_pathname(n, pathname, pattern) ==
    IF n >= MatchDepth THEN OVERFLOW ELSE MatchLoop(n, pathname, pattern)

(* case '*': try the rest of the pattern after consuming 0, 1, ...          *)
(* characters, as long as the character just passed over is a filename     *)
(* character (the do/while condition reads pathname-1).                    *)
MatchStar(n, pathname, rest) ==
    LET result == __match_pathname(n + 1, pathname, rest) IN
    IF result /= FAILURE THEN result
    ELSE IF is_filename(Ch(pathname)) THEN MatchStar(n, Next1(pathname), rest)
    ELSE FAILURE

MatchLoop(n, pathname, pattern) ==
    LET c == Ch(pattern) IN
    IF c = NUL THEN (IF pathname = <<>> THEN SUCCESS ELSE FAILURE)
    ELSE IF c = "*" THEN MatchStar(n, pathname, Next1(pattern))
    ELSE IF c = "?" THEN
        LET result == IF is_filename(Ch(pathname))
                      THEN __match_pathname(n + 1, Next1(pathname), Next1(pattern))
                      ELSE FAILURE
        IN  IF result /= FAILURE THEN result
            ELSE MatchLoop(n, pathname, Next1(pattern))   \* '?' is skipped
    ELSE IF c = "[" THEN FAILURE
    ELSE IF c = "|" /\ pathname = <<>> THEN SUCCESS
    ELSE IF c \in {"|", "/"} /\ pathname = <<>> THEN PARTIAL
    ELSE IF Ch(pathname) = c THEN MatchLoop(n, Next1(pathname), Next1(pattern))
    ELSE FAILURE

(***************************************************************************)
(* Positions in match_pathname's two loops.  Strings are indexed from 1;  *)
(* a suffix starting at i is SubSeq(s, i, Len(s)).                         *)
(***************************************************************************)
Suffix(s, i) == SubSeq(s, i, Len(s))

(* strchr(s + i, c) as an index, or 0 for NULL: the first c at index >= i. *)
IndexFrom(s, i, c) ==
    LET hits == {j \in i..Len(s) : s[j] = c} IN
    IF hits = {} THEN 0 ELSE CHOOSE j \in hits : \A k \in hits : j <= k

(* The starts visited by for (p = s; p; p = strchr(p+1, c)): the start 1 *)
(* and every later occurrence of c ('/'); the alternation loop uses       *)
(* strchrskip, which steps one past the '|'.                               *)
RECURSIVE LoopStarts(_, _, _, _)
LoopStarts(s, i, c, skip) ==
    LET j == IndexFrom(s, i + 1, c) IN
    <<i>> \o (IF j = 0 THEN <<>> ELSE LoopStarts(s, j + skip, c, skip))

(* The pathname starts tried, and the alternatives of the pattern. *)
PathStarts(pathname) == LoopStarts(pathname, 1, "/", 0)
strchrskip_starts(pattern) == LoopStarts(pattern, 1, "|", 1)

(* The first outcome other than FAILURE in a sequence, else FAILURE. *)
RECURSIVE FirstNonFailure(_)
FirstNonFailure(rs) ==
    IF rs = <<>> THEN FAILURE
    ELSE IF Head(rs) /= FAILURE THEN Head(rs) ELSE FirstNonFailure(Tail(rs))

(* One try of match_pathname's inner loop: an anchored alternative is     *)
(* matched at the '/' the suffix starts with, another one after it.       *)
MatchAt(pathname, pattern, p, t) ==
    LET patt == Suffix(pattern, t) IN
    IF Ch(patt) = "/" THEN __match_pathname(0, Suffix(pathname, p), patt)
                      ELSE __match_pathname(0, Suffix(pathname, p + 1), patt)

match_pathname(pathname, pattern) ==
    LET ps == PathStarts(pathname)
        ts == strchrskip_starts(pattern)
        tries == [k \in 1..(Len(ps) * Len(ts)) |->
                    MatchAt(pathname, pattern, ps[((k - 1) \div Len(ts)) + 1],
                                               ts[((k - 1) % Len(ts)) + 1])]
    IN  FirstNonFailure(tries)

(* ispattern: no leading '/', or a '*', '?' or '|' anywhere. *)
ispattern(pattern) ==
    \/ Ch(pattern) /= "/"
    \/ \E i \in 1..Len(pattern) : pattern[i] \in {"*", "?", "|"}

(* isrecursive: some alternative does not start with '/'. *)
isrecursive(pattern) ==
    \E k \in 1..Len(strchrskip_starts(pattern)) :
        Ch(Suffix(pattern, strchrskip_starts(pattern)[k])) /= "/"
==============================================================================
