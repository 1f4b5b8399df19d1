-------------------------- MODULE MulticastRequests -------------------------
(***************************************************************************)
(* Requests to one multicast endpoint (createWebhookHandler and            *)
(* createBidirectionalHandler of server/multicast_manager.go): each goes   *)
(* to every subscriber, in a goroutine per subscriber that opens a channel *)
(* of the subscriber's SSH connection (share/tunnel/tunnel_in_proxy.go).   *)
(* A webhook has been acknowledged before; a bidirectional endpoint waits  *)
(* for the first answer.  Then the request is counted in the endpoint's    *)
(* row, which administrators and StopMulticast write back whole.           *)
(***************************************************************************)
EXTENDS Integers, FiniteSets

CONSTANTS
  Calls,        \* requests, each made at most once
  Members,      \* tunnel sessions that may subscribe
  Writers,      \* updates of the row by administrators
  MaxUpsets,    \* bound: stops of the endpoint, ends of the process, rows
                \* written back and statements that fail
  NoAnswer      \* the channel of answers is empty; also: nothing was read

ASSUME RequestsAssumption == MaxUpsets \in Nat

VARIABLES
  active,    \* the manager has the endpoint, enabled
  mode,      \* of the running instance
  waiting,   \* its subscribers
  call,      \* call -> its kind and where its handler is
  answer,    \* call -> respCh of its handler, of capacity 1
  delivery,  \* call -> the subscribers a goroutine delivers it to
  counts,    \* the columns connections and bytes, in calls, of the row
  given,     \* the Config of the running instance: counts when it started
  copy,      \* writer -> the counts of the row it has read
  drift,     \* history: a statement failed, a stale copy was written, or a
             \* process ended that had counted a call
  recorded,  \* history: the number of calls whose bytes were added
  upsets

requestVars == <<active, mode, waiting, call, answer, delivery, counts, given, copy,
                 drift, recorded, upsets>>
endpointVars == <<active, mode, waiting, given, copy>>

Modes == {"webhook", "bidirectional"}
Handler(of, pc) == [mode |-> of, pc |-> pc]

RequestsInit ==
  /\ active = TRUE /\ mode \in Modes /\ waiting = {}
  /\ call = [q \in Calls |-> Handler("webhook", "new")]
  /\ answer = [q \in Calls |-> NoAnswer]
  /\ delivery = [q \in Calls |-> {}]
  /\ counts = [connections |-> 0, bytes |-> 0]
  /\ given = counts
  /\ copy = [a \in Writers |-> NoAnswer]
  /\ drift = FALSE /\ recorded = 0
  /\ upsets = 0

-----------------------------------------------------------------------------
(* The handler of call q.                                                  *)

HandlerGoes(q, from, to) == call[q].pc = from /\ call' = [call EXCEPT ![q].pc = to]
IsBidirectional(q) == call[q].mode = "bidirectional"

(* The body is read, and a webhook acknowledged.                           *)
Accept(q) ==
  /\ active
  /\ call[q].pc = "new"
  /\ call' = [call EXCEPT ![q] = Handler(mode, "fan out")]
  /\ UNCHANGED <<endpointVars, answer, delivery, counts, drift, recorded, upsets>>

(* getActiveByPort, and a goroutine for each subscriber.  Without an       *)
(* active endpoint the answer is 503, and the call is not counted.         *)
FanOut(q) ==
  /\ call[q].pc = "fan out"
  /\ IF active
     THEN /\ call' = [call EXCEPT ![q].pc = IF IsBidirectional(q) THEN "wait" ELSE "count"]
          /\ delivery' = [delivery EXCEPT ![q] = waiting]
     ELSE /\ call' = [call EXCEPT ![q].pc = IF IsBidirectional(q) THEN "done" ELSE "count"]
          /\ UNCHANGED delivery
  /\ UNCHANGED <<endpointVars, answer, counts, drift, recorded, upsets>>

(* ctx.Done, after 30 s or when the requester has left: 504.  select may   *)
(* choose it although an answer has come.                                  *)
TimeOut(q) ==
  /\ HandlerGoes(q, "wait", "count")
  /\ answer' = [answer EXCEPT ![q] = NoAnswer]
  /\ UNCHANGED <<endpointVars, delivery, counts, drift, recorded, upsets>>

(* The answer taken is passed on, or is no HTTP response: 502.             *)
TakeAnswer(q) ==
  /\ answer[q] # NoAnswer
  /\ HandlerGoes(q, "wait", "count")
  /\ UNCHANGED <<endpointVars, answer, delivery, counts, drift, recorded, upsets>>

Upset == upsets < MaxUpsets /\ upsets' = upsets + 1

(* A statement: it may fail, and its error is ignored.                     *)
Executes(new) ==
  \/ counts' = new /\ UNCHANGED <<drift, upsets>>
  \/ Upset /\ drift' = TRUE /\ UNCHANGED counts

(* Only a call that was answered adds bytes.                               *)
AfterCount(q) == IF answer[q] = NoAnswer THEN "uncount" ELSE "bytes"

Count(q) ==
  /\ HandlerGoes(q, "count", AfterCount(q))
  /\ Executes([counts EXCEPT !.connections = @ + 1])
  /\ UNCHANGED <<endpointVars, answer, delivery, recorded>>

AddBytes(q) ==
  /\ HandlerGoes(q, "bytes", "uncount")
  /\ Executes([counts EXCEPT !.bytes = @ + 1])
  /\ recorded' = recorded + 1
  /\ UNCHANGED <<endpointVars, answer, delivery>>

(* Variant: the call that timed out returns without the deferred -1.       *)
UncountAnswered(q) ==
  /\ HandlerGoes(q, "uncount", "done")
  /\ IF IsBidirectional(q) /\ answer[q] = NoAnswer
     THEN UNCHANGED <<counts, drift, upsets>>
     ELSE Executes([counts EXCEPT !.connections = @ - 1])
  /\ answer' = [answer EXCEPT ![q] = NoAnswer]
  /\ UNCHANGED <<endpointVars, delivery, recorded>>

(* The deferred -1, and the handler and its channel are gone.              *)
Uncount(q) ==
  /\ HandlerGoes(q, "uncount", "done")
  /\ Executes([counts EXCEPT !.connections = @ - 1])
  /\ answer' = [answer EXCEPT ![q] = NoAnswer]
  /\ UNCHANGED <<endpointVars, delivery, recorded>>

HandlerStep(q) ==
  Accept(q) \/ FanOut(q) \/ TimeOut(q) \/ TakeAnswer(q) \/ Count(q) \/ AddBytes(q) \/ Uncount(q)

-----------------------------------------------------------------------------
(* The goroutine that delivers call q to subscriber s: getSSH, OpenChannel *)
(* and Write, which do not look whether the handler still waits, and the   *)
(* response, for which a webhook does not wait.                            *)

DeliveryEnds(q, s) ==
  /\ s \in delivery[q] /\ delivery' = [delivery EXCEPT ![q] = @ \ {s}]
  /\ UNCHANGED <<endpointVars, call, counts, drift, recorded, upsets>>

(* Delivered without a response, or not at all.                            *)
NotAnswered(q, s) == DeliveryEnds(q, s) /\ UNCHANGED answer

(* The channel of capacity 1 keeps the first response, while the handler   *)
(* waits; any other is dropped, as if there had been none.                 *)
Answered(q, s) ==
  /\ DeliveryEnds(q, s)
  /\ call[q].pc = "wait" /\ answer[q] = NoAnswer
  /\ answer' = [answer EXCEPT ![q] = s]

-----------------------------------------------------------------------------
(* Around the requests: subscribers, administrators, the process.          *)

Join(s) ==
  /\ active /\ s \notin waiting
  /\ waiting' = waiting \cup {s}
  /\ UNCHANGED <<active, mode, given, copy, call, answer, delivery, counts, drift,
                 recorded, upsets>>
Leave(s) ==
  /\ active /\ s \in waiting
  /\ waiting' = waiting \ {s}
  /\ UNCHANGED <<active, mode, given, copy, call, answer, delivery, counts, drift,
                 recorded, upsets>>

(* handleUpdateMulticastTunnel reads the row and writes its copy.          *)
ReadCounts(a) ==
  /\ copy[a] = NoAnswer /\ upsets < MaxUpsets
  /\ copy' = [copy EXCEPT ![a] = counts]
  /\ UNCHANGED <<active, mode, waiting, given, call, answer, delivery, counts, drift,
                 recorded, upsets>>

WritesBack(c) == counts' = c /\ drift' = (drift \/ c # counts)

WriteCounts(a) ==
  /\ copy[a] # NoAnswer
  /\ WritesBack(copy[a])
  /\ copy' = [copy EXCEPT ![a] = NoAnswer]
  /\ Upset
  /\ UNCHANGED <<active, mode, waiting, given, call, answer, delivery, recorded>>

(* StopMulticast writes the Config, with the counts of the day it started. *)
(* Server.Close ends the requests: the context of a bidirectional one is   *)
(* done, which TimeOut allows at any time.                                 *)
StopEndpoint ==
  /\ active /\ Upset
  /\ active' = FALSE
  /\ WritesBack(given)
  /\ waiting' = {}
  /\ UNCHANGED <<mode, given, copy, call, answer, delivery, recorded>>

(* The goroutine of the server writes the Config too, once it listens and   *)
(* when Serve fails.                                                       *)
SaveGiven ==
  /\ active /\ Upset
  /\ WritesBack(given)
  /\ UNCHANGED <<endpointVars, call, answer, delivery, recorded>>

StartEndpoint ==
  /\ ~active
  /\ active' = TRUE /\ mode' \in Modes
  /\ given' = counts
  /\ UNCHANGED <<waiting, copy, call, answer, delivery, counts, drift,
                 recorded, upsets>>

(* The process ends; restoreMulticasts starts the endpoint from its row.   *)
EndProcess ==
  /\ Upset
  /\ call' = [q \in Calls |-> [call[q] EXCEPT !.pc = IF @ = "new" THEN "new" ELSE "done"]]
  /\ delivery' = [q \in Calls |-> {}]
  /\ active' = TRUE /\ waiting' = {} /\ given' = counts
  /\ copy' = [a \in Writers |-> NoAnswer]
  /\ drift' = (drift \/ \E q \in Calls : call[q].pc \in {"bytes", "uncount"})
  /\ answer' = [q \in Calls |-> NoAnswer]
  /\ UNCHANGED <<mode, counts, recorded>>

RequestsNext ==
  \/ \E q \in Calls : HandlerStep(q)
  \/ \E q \in Calls, s \in Members : Answered(q, s) \/ NotAnswered(q, s)
  \/ \E s \in Members : Join(s) \/ Leave(s)
  \/ \E a \in Writers : ReadCounts(a) \/ WriteCounts(a)
  \/ StopEndpoint \/ SaveGiven \/ StartEndpoint \/ EndProcess

RequestsSpec == RequestsInit /\ [][RequestsNext]_requestVars

-----------------------------------------------------------------------------
(* Properties.                                                             *)

RequestsTypeOK ==
  /\ active \in BOOLEAN /\ waiting \subseteq Members /\ drift \in BOOLEAN
  /\ call \in [Calls -> [mode : Modes,
                         pc : {"new", "fan out", "wait", "count", "bytes", "uncount", "done"}]]
  /\ answer \in [Calls -> Members \cup {NoAnswer}]
  /\ delivery \in [Calls -> SUBSET Members]
  /\ counts \in [connections : Int, bytes : Nat]
  /\ recorded \in Nat

(* The column connections is the number of calls between their +1 and -1,  *)
(* and bytes that of the calls that were answered, whichever way each call *)
(* ends - unless a statement failed, the process ended in between, or the  *)
(* row was written back from a copy that was no longer current.            *)
CountsSettle ==
  ~drift =>
    /\ counts.connections = Cardinality({q \in Calls : call[q].pc \in {"bytes", "uncount"}})
    /\ counts.bytes = recorded
=============================================================================
