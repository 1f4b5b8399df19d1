------------------------------ MODULE EventLog ------------------------------
(***************************************************************************)
(* What a capture buffer promises its readers: the last Cap events added,  *)
(* oldest first.  Ring implements it in place.                             *)
(***************************************************************************)
EXTENDS Integers, Sequences

CONSTANTS Events, Cap

VARIABLE log

(* The last m elements of s, all of s when it is shorter.                  *)
LastOf(s, m) == IF Len(s) <= m THEN s ELSE SubSeq(s, Len(s) - m + 1, Len(s))

Init == log = << >>

Add(e) == log' = LastOf(Append(log, e), Cap)

Next == \E e \in Events : Add(e)

Spec == Init /\ [][Next]_log
=============================================================================
