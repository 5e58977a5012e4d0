---------------------------- MODULE AbstractSearch ----------------------------
(***************************************************************************)
(* What one search call promises its caller, whatever the walk looks      *)
(* like: it reports the matches the specification asks for one after      *)
(* another, in their order (a native ->search may hand over several at     *)
(* once), and it returns: either the number of matches, once all of them  *)
(* are reported, or an error, having reported some prefix of them.  The   *)
(* matches are a variable fixed at the start because they depend on the   *)
(* call's arguments.                                                       *)
(***************************************************************************)
EXTENDS Naturals, Sequences

CONSTANT Errors        \* the negative return values

VARIABLES
    target,    \* the matches the call must report, in order
    reported,  \* the matches written to the caller's buffer so far
    done,      \* has the call returned?
    ret        \* its return value, once done

avars == <<target, reported, done, ret>>

Init ==
    /\ target \in Seq(Seq(STRING))
    /\ reported = <<>>
    /\ done = FALSE
    /\ ret = 0

(* The next one or more matches reach the buffer. *)
Report ==
    /\ ~done
    /\ \E k \in (Len(reported) + 1)..Len(target) : reported' = SubSeq(target, 1, k)
    /\ UNCHANGED <<target, done, ret>>

(* The call returns the count, after reporting whatever was left. *)
Return ==
    /\ ~done
    /\ reported' = target
    /\ done' = TRUE
    /\ ret' = Len(target)
    /\ UNCHANGED target

(* The call fails with an error; what was reported stays. *)
Fail ==
    /\ ~done
    /\ done' = TRUE
    /\ ret' \in Errors
    /\ UNCHANGED <<target, reported>>

Next == Report \/ Return \/ Fail

(* A call that has not returned keeps running until it does. *)
Spec == Init /\ [][Next]_avars /\ WF_avars(Next)

(* The ordering half of the promise, without its fairness. *)
SafeSpec == Init /\ [][Next]_avars

==============================================================================
