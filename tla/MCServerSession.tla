--------------------------- MODULE MCServerSession ---------------------------
(***************************************************************************)
(* Small instances of ServerSession: which user opens which session, and   *)
(* with which remotes.                                                     *)
(***************************************************************************)
EXTENDS ServerSession

CONSTANTS s1, s2, alice, bob, p1, p2

(* Two sessions of one user on the same port: they share a canonical row.  *)
OneUser == [s \in Sessions |-> alice]
OnePort == [s \in Sessions |-> <<p1>>]

(* Sessions of two users, whose remotes overlap in opposite order.         *)
TwoUsers == [s \in Sessions |-> IF s = s1 THEN alice ELSE bob]
TwoPorts == [s \in Sessions |-> IF s = s1 THEN <<p1, p2>> ELSE <<p2>>]
=============================================================================
