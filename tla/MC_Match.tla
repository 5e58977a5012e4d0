------------------------------- MODULE MC_Match -------------------------------
(***************************************************************************)
(* Checks match_pathname against the matching rules of the specification *)
(* (spec.md 4.1, 4.2) over every pattern and pathname up to a bounded     *)
(* length.  The harness grows a pattern and a pathname one character at a *)
(* time, so every pair within the bounds is a reachable state.            *)
(***************************************************************************)
EXTENDS Match, FiniteSets, SequencesExt

CONSTANTS
    PatternChars,        \* characters a pattern is built from
    PathChars,           \* characters of an entry name, besides '/'
    MaxPattern,          \* longest pattern
    MaxPath,             \* longest pathname
    InitPatterns,        \* the patterns the harness starts from
    AllowEmptyAlternatives  \* may the harness write "||" ?

VARIABLES pattern, pathname
vars == <<pattern, pathname>>

(***************************************************************************)
(* The reference: what spec.md says a pattern means.                      *)
(***************************************************************************)
(* A string without a separator: what '*' and '?' may consume. *)
IsSegment(w) == \A i \in 1..Len(w) : w[i] /= "/"

(* The string s is exactly the language of the token sequence toks:       *)
(* '*' is any segment, '?' at most one non-separator character, '['       *)
(* never matches, anything else is itself.                                *)
RECURSIVE Accepts(_, _)
Accepts(toks, s) ==
    IF toks = <<>> THEN s = <<>>
    ELSE LET t == Head(toks) IN
         IF t = "*" THEN \E k \in 0..Len(s) :
                            IsSegment(SubSeq(s, 1, k)) /\ Accepts(Tail(toks), Suffix(s, k + 1))
         ELSE IF t = "?" THEN \/ Accepts(Tail(toks), s)
                              \/ s /= <<>> /\ Head(s) /= "/" /\ Accepts(Tail(toks), Tail(s))
         ELSE IF t = "[" THEN FALSE
         ELSE s /= <<>> /\ Head(s) = t /\ Accepts(Tail(toks), Tail(s))

(* Partial: s is used up exactly where the pattern reaches a '/'. *)
PartiallyAccepts(toks, s) ==
    \E i \in 1..Len(toks) : toks[i] = "/" /\ Accepts(SubSeq(toks, 1, i - 1), s)

(* The alternatives: the pattern split on every '|'. *)
Bars(p) == {j \in 1..Len(p) : p[j] = "|"}
Cuts(p) == <<0>> \o SetToSortSeq(Bars(p), <) \o <<Len(p) + 1>>
Alternatives(p) == [k \in 1..(Len(Cuts(p)) - 1) |-> SubSeq(p, Cuts(p)[k] + 1, Cuts(p)[k + 1] - 1)]

(* The suffixes tried: the whole pathname and each one at a later '/'. *)
SpecStarts(s) == <<1>> \o SetToSortSeq({j \in 2..Len(s) : s[j] = "/"}, <)

Wildcards(alt) == Cardinality({i \in 1..Len(alt) : alt[i] \in {"*", "?"}})

(* The outcome of one alternative at one suffix.  With Bounded, an        *)
(* alternative with MatchDepth wildcards or more may fail: the bound only *)
(* excuses that branch.                                                    *)
SpecBranch(s, alt, Bounded) ==
    LET subject == IF Ch(alt) = "/" THEN s ELSE Tail(s) IN
    IF Bounded /\ Wildcards(alt) >= MatchDepth THEN FAILURE
    ELSE IF Accepts(alt, subject) THEN SUCCESS
    ELSE IF PartiallyAccepts(alt, subject) THEN PARTIAL
    ELSE FAILURE

SpecMatch(s, p, Bounded) ==
    LET ss == SpecStarts(s)
        as == Alternatives(p)
    IN  FirstNonFailure([k \in 1..(Len(ss) * Len(as)) |->
            SpecBranch(Suffix(s, ss[((k - 1) \div Len(as)) + 1]),
                       as[((k - 1) % Len(as)) + 1], Bounded)])

(* A pattern ending in '|' makes match_pathname read past the string's   *)
(* NUL (strchrskip(patt+1, '|') on the empty last alternative): its       *)
(* outcome is undefined and is not asked about.                           *)
Defined(p) == Ch(p) /= NUL /\ p[Len(p)] /= "|"

(***************************************************************************)
(* Harness.                                                               *)
(***************************************************************************)
Init ==
    /\ pattern \in InitPatterns
    /\ pathname = <<"/">>

ExtendPattern ==
    /\ Len(pattern) < MaxPattern
    /\ \E c \in PatternChars :
          /\ AllowEmptyAlternatives \/ ~(c = "|" /\ pattern[Len(pattern)] = "|")
          /\ pattern' = Append(pattern, c)
    /\ UNCHANGED pathname

ExtendPathname ==
    /\ Len(pathname) < MaxPath
    /\ \E c \in PathChars \cup {"/"} : pathname' = Append(pathname, c)
    /\ UNCHANGED pattern

Next == ExtendPattern \/ ExtendPathname

Spec == Init /\ [][Next]_vars

(***************************************************************************)
(* Properties.                                                            *)
(***************************************************************************)
(* match_pathname decides an entry the way the specification's matcher   *)
(* does: whenever __match_pathname's backtracking returns SUCCESS or      *)
(* PARTIAL that is the specified outcome, and whenever the specification  *)
(* gives SUCCESS or PARTIAL through alternatives short enough for the     *)
(* recursion bound, match_pathname returns it.  This covers '*' never     *)
(* crossing '/', '?' matching zero or one character, '|' ending an        *)
(* alternative, the suffix loop and anchoring, and OVERFLOW of one        *)
(* branch counting only as a failure of that branch.                      *)
MatchMeetsSpec ==
    Defined(pattern) =>
        LET code == match_pathname(pathname, pattern) IN
        /\ code \in {SUCCESS, PARTIAL} => code = SpecMatch(pathname, pattern, FALSE)
        /\ SpecMatch(pathname, pattern, TRUE) \in {SUCCESS, PARTIAL} =>
              code = SpecMatch(pathname, pattern, TRUE)

(***************************************************************************)
(* Inputs.                                                                *)
(***************************************************************************)
SingleCharPatterns == {<<c>> : c \in PatternChars \ {"|"}}
(* "*********b|a": nine stars make the first alternative overflow. *)
OverflowPatterns == {[i \in 1..9 |-> "*"] \o <<"b", "|", "a">>}
(* Patterns that begin with an empty alternative. *)
EmptyAltPatterns == {<<"|", "a">>, <<"a", "|", "|", "b">>}
==============================================================================
