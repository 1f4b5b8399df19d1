--------------------------- MODULE PortAllocation ---------------------------
(***************************************************************************)
(* Who may use which port (server/server_api_port_reservations.go,         *)
(* share/database/port_reservations.go): ranges that administrators reserve*)
(* for users, the threshold from which ports are free for all, ports of    *)
(* multicasts, and the question that a session and the creation of a       *)
(* listener ask before they take a port, in three SQL statements.          *)
(***************************************************************************)
EXTENDS Integers, FiniteSets

CONSTANTS
  Holders,          \* users
  Reservers,        \* requests of administrators at a time
  Askers,           \* calls of isPortAvailableForUser at a time
  MaxPort,
  Thresholds,       \* what the threshold may be set to
  GivenThreshold,
  MaxReserved,      \* bound: requests
  MaxAsked,         \* bound: questions
  Nobodys           \* no user

Ports == 1..MaxPort

ASSUME PortAssumption ==
  /\ MaxPort \in Nat \ {0} /\ Thresholds \subseteq Nat /\ GivenThreshold \in Nat
  /\ MaxReserved \in Nat /\ MaxAsked \in Nat /\ Nobodys \notin Holders

VARIABLES
  reservations,     \* rows of port_reservations; id is the request's number
  threshold,
  multicastPorts,   \* ports of enabled multicasts
  reserve,          \* the administrators' requests
  ask,              \* the questions
  reservedCount, askedCount,
  justified         \* history: askers whose port was allowed at some moment of their call

portVars == <<reservations, threshold, multicastPorts, reserve, ask, reservedCount, askedCount, justified>>

Range0 == [user |-> Nobodys, first |-> 1, last |-> 1]
NoReserve == [pc |-> "idle", id |-> 0, range |-> Range0, raced |-> FALSE]
NoAsk == [pc |-> "idle", user |-> Nobodys, port |-> 1]

PortsInit ==
  /\ reservations = {} /\ threshold = GivenThreshold /\ multicastPorts = {}
  /\ reserve = [r \in Reservers |-> NoReserve] /\ ask = [q \in Askers |-> NoAsk]
  /\ reservedCount = 0 /\ askedCount = 0 /\ justified = {}

Covers(x, p) == x.first <= p /\ p <= x.last

(* Variant: ranges that touch do not overlap.                              *)
OverlapsInside(x, y) == x.first < y.last /\ x.last > y.first

Overlaps(x, y) == x.first <= y.last /\ x.last >= y.first

Allowed(p, u) ==
  \/ p \in multicastPorts
  \/ p >= threshold
  \/ \E x \in reservations : x.range.user = u /\ Covers(x.range, p)

(* Who is asking for what is allowed right now.                            *)
AllowedNow == {q \in Askers : ask[q].pc # "idle" /\ Allowed(ask[q].port, ask[q].user)}

(* What is allowed before or after a step is so at a moment of the call.   *)
Justify == justified' = {q \in justified : ask'[q].pc # "idle"} \cup AllowedNow'

-----------------------------------------------------------------------------
(* handleCreatePortReservation, handleDeletePortReservation,               *)
(* handleSetReservedPortsThreshold.                                        *)

ReserveAt(r, pc) == reserve[r].pc = pc
Requested == reservedCount < MaxReserved /\ reservedCount' = reservedCount + 1

(* The ranges there are, read.  A list that misses one under way is raced. *)
ListReservations(r) ==
  /\ ReserveAt(r, "idle") /\ Requested
  /\ \E u \in Holders, first, last \in Ports :
       LET new == [user |-> u, first |-> first, last |-> last] IN
       /\ first <= last
       /\ \A x \in reservations : ~Overlaps(new, x.range)
       /\ reserve' = [q \in Reservers |->
            IF q = r THEN [pc |-> "insert", id |-> reservedCount + 1, range |-> new,
                           raced |-> \E o \in Reservers : ReserveAt(o, "insert")]
            ELSE reserve[q]]
  /\ UNCHANGED <<reservations, threshold, multicastPorts, ask, askedCount>>

CreatePortReservation(r) ==
  /\ ReserveAt(r, "insert")
  /\ reservations' = reservations \cup
       {[id |-> reserve[r].id, range |-> reserve[r].range, raced |-> reserve[r].raced]}
  /\ reserve' = [reserve EXCEPT ![r] = NoReserve]
  /\ UNCHANGED <<threshold, multicastPorts, ask, reservedCount, askedCount>>

(* The INSERT fails.                                                       *)
NotReserved(r) ==
  /\ ReserveAt(r, "insert")
  /\ reserve' = [reserve EXCEPT ![r] = NoReserve]
  /\ UNCHANGED <<reservations, threshold, multicastPorts, ask, reservedCount, askedCount>>

DeletePortReservation ==
  /\ Requested
  /\ \E x \in reservations : reservations' = reservations \ {x}
  /\ UNCHANGED <<threshold, multicastPorts, reserve, ask, askedCount>>

SetReservedPortsThreshold ==
  /\ Requested
  /\ threshold' \in Thresholds
  /\ UNCHANGED <<reservations, multicastPorts, reserve, ask, askedCount>>

(* A multicast is enabled or disabled (Multicast).                         *)
SwitchMulticast ==
  /\ Requested
  /\ \E p \in Ports :
       multicastPorts' = IF p \in multicastPorts THEN multicastPorts \ {p} ELSE multicastPorts \cup {p}
  /\ UNCHANGED <<reservations, threshold, reserve, ask, askedCount>>

-----------------------------------------------------------------------------
(* isPortAvailableForUser, IsPortReserved.                                 *)

AskAt(q, pc) == ask[q].pc = pc
AskTo(q, pc) == ask' = [ask EXCEPT ![q].pc = pc]
AskedFor == <<reservations, threshold, multicastPorts, reserve, reservedCount>>

Ask(q) ==
  /\ AskAt(q, "idle") /\ askedCount < MaxAsked
  /\ \E u \in Holders, p \in Ports : ask' = [ask EXCEPT ![q] = [pc |-> "multicast?", user |-> u, port |-> p]]
  /\ askedCount' = askedCount + 1
  /\ UNCHANGED AskedFor

(* When the multicasts cannot be listed, they are passed over.             *)
AskMulticast(q) ==
  /\ AskAt(q, "multicast?")
  /\ \/ ask[q].port \in multicastPorts /\ AskTo(q, "granted")
     \/ AskTo(q, "threshold?")
  /\ UNCHANGED <<AskedFor, askedCount>>

(* Variant: the threshold itself is still reserved, the port below is not. *)
AskThresholdBelow(q) ==
  /\ AskAt(q, "threshold?")
  /\ AskTo(q, IF ask[q].port + 1 >= threshold THEN "granted" ELSE "count?")
  /\ UNCHANGED <<AskedFor, askedCount>>

AskThreshold(q) ==
  /\ AskAt(q, "threshold?")
  /\ AskTo(q, IF ask[q].port >= threshold THEN "granted" ELSE "count?")
  /\ UNCHANGED <<AskedFor, askedCount>>

AskReservations(q) ==
  /\ AskAt(q, "count?")
  /\ AskTo(q, IF \E x \in reservations : x.range.user = ask[q].user /\ Covers(x.range, ask[q].port)
              THEN "granted" ELSE "refused")
  /\ UNCHANGED <<AskedFor, askedCount>>

(* One of the two statements of IsPortReserved fails.                      *)
AskFails(q) ==
  /\ ask[q].pc \in {"threshold?", "count?"} /\ AskTo(q, "refused")
  /\ UNCHANGED <<AskedFor, askedCount>>

Answered(q) ==
  /\ ask[q].pc \in {"granted", "refused"}
  /\ ask' = [ask EXCEPT ![q] = NoAsk]
  /\ UNCHANGED <<AskedFor, askedCount>>

AskStep(q) == Ask(q) \/ AskMulticast(q) \/ AskThreshold(q) \/ AskReservations(q) \/ AskFails(q) \/ Answered(q)

PortsStep ==
  \/ \E r \in Reservers : ListReservations(r) \/ CreatePortReservation(r) \/ NotReserved(r)
  \/ DeletePortReservation \/ SetReservedPortsThreshold \/ SwitchMulticast
  \/ \E q \in Askers : AskStep(q)

PortsNext == PortsStep /\ Justify

PortsSpec == PortsInit /\ [][PortsNext]_portVars

-----------------------------------------------------------------------------
(* Reservations and questions are what the requests make of them.          *)
PortsTypeOK ==
  /\ \A x \in reservations : x.range.first \in Ports /\ x.range.last \in Ports /\ x.id \in 1..MaxReserved
  /\ threshold \in Nat /\ multicastPorts \subseteq Ports
  /\ reserve \in [Reservers -> [pc : {"idle", "insert"}, id : 0..MaxReserved, raced : BOOLEAN,
       range : [user : Holders \cup {Nobodys}, first : Ports, last : Ports]]]
  /\ ask \in [Askers -> [pc : {"idle", "multicast?", "threshold?", "count?", "granted", "refused"},
                         user : Holders \cup {Nobodys}, port : Ports]]
  /\ justified \subseteq Askers

(* "Check for overlapping reservations"                                    *)
(* (server/server_api_port_reservations.go:93): no port is reserved twice, *)
(* unless one of the two requests listed the reservations while another    *)
(* was between its list and its insert.                                    *)
OverlapOnlyByRace ==
  \A x, y \in reservations :
    x.id # y.id /\ (\E p \in Ports : Covers(x.range, p) /\ Covers(y.range, p))
      => x.raced \/ y.raced

(* Whoever changes reservations, threshold and multicasts between the three*)
(* statements of isPortAvailableForUser: a port that is granted was the    *)
(* user's, or free, at some moment of the call.                            *)
GrantsJustified == \A q \in Askers : AskAt(q, "granted") => q \in justified
=============================================================================
