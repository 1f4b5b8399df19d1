----------------------------- MODULE MCMulticast ----------------------------
(***************************************************************************)
(* Multicast endpoints and the requests to one of them.  What a request    *)
(* needs of the endpoint, whether it is active and who subscribes, is part *)
(* of MulticastRequests, so a behaviour is of one of the two, and the      *)
(* other rests.  Multicasts and administrators are interchangeable.        *)
(***************************************************************************)
EXTENDS Multicast, MulticastRequests, TLC

CONSTANTS s1, p1, p2

Symmetric == Permutations(Admins) \cup Permutations(Multicasts)

AtFirst == [s \in Sessions |-> p1]

VARIABLE part

multicastVars == <<part, vars, requestVars>>

MulticastInit ==
  /\ part \in {"endpoints", "requests"}
  /\ Init /\ RequestsInit
  /\ part = "endpoints" => mode = "webhook"

MulticastNext ==
  /\ UNCHANGED part
  /\ \/ part = "endpoints" /\ Next /\ UNCHANGED requestVars
     \/ part = "requests" /\ RequestsNext /\ UNCHANGED vars

MulticastSpec == MulticastInit /\ [][MulticastNext]_multicastVars

(* The variables of both have their types.                                 *)
MulticastTypeOK == TypeOK /\ RequestsTypeOK
=============================================================================
