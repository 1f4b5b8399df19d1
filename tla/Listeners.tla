------------------------------ MODULE Listeners -----------------------------
(***************************************************************************)
(* HTTP listeners: the listeners table, the manager that runs a server for *)
(* each (server/listener_manager.go), the requests that create, update and *)
(* delete them (server/server_api_listeners.go) and the restart that runs  *)
(* them again (restoreListeners).                                          *)
(*                                                                         *)
(* Start holds the manager's mutex and touches no row; Stop holds it over  *)
(* an UPDATE.  The server's goroutine and the updates take no mutex.  The  *)
(* Config a listener's goroutine, its manager and its creator share is     *)
(* only read for an UPDATE right after it is written: a status is written  *)
(* with the value its writer gave it.                                      *)
(***************************************************************************)
EXTENDS Integers, FiniteSets

CONSTANTS
  Ids,        \* listener ids, each given to at most one listener
  Ports,
  Requests,   \* requests in progress at once
  Wanted,     \* the statuses an update may ask for
  MaxOps,     \* bound: requests
  MaxRestart, \* bound: ends of the process
  NoOne       \* who holds a free port or the free mutex; no listener

Statuses == {"closed", "open", "error"}

ASSUME ListenersAssumption ==
  /\ Wanted \subseteq Statuses
  /\ MaxOps \in Nat /\ MaxRestart \in Nat
  /\ NoOne \notin Ids \cup Requests \cup Ports

VARIABLES
  rows,     \* the table: id -> status, or "none"
  port,     \* id -> its port, NoOne as long as the id is not used
  items,    \* ListenerManager.listeners
  pc,       \* id -> where the goroutine of its server is
  ended,    \* the ids whose context is done
  socket,   \* port -> the id whose server listens on it, or NoOne
  lock,     \* the request in StopListener, or NoOne
  req,      \* request -> where it is, about which id, with what
  ops, restarts

table == <<rows, port>>
manager == <<items, pc, ended, socket>>
listenerVars == <<table, manager, lock, req, ops, restarts>>

At(where, id, arg) == [pc |-> where, id |-> id, arg |-> arg]
Idle == At("idle", NoOne, 0)

ListenersInit ==
  /\ rows = [i \in Ids |-> "none"]
  /\ port = [i \in Ids |-> NoOne]
  /\ items = {} /\ ended = {}
  /\ pc = [i \in Ids |-> "none"]
  /\ socket = [p \in Ports |-> NoOne]
  /\ lock = NoOne
  /\ req = [r \in Requests |-> Idle]
  /\ ops = 0 /\ restarts = 0

(* UpdateListener: the error of an UPDATE that finds no row is ignored.    *)
Save(i, status) == rows' = IF rows[i] = "none" THEN rows ELSE [rows EXCEPT ![i] = status]

-----------------------------------------------------------------------------
(* The goroutine of a listener's server.                                   *)

Listen(i) ==
  /\ pc[i] = "listen"
  /\ socket[port[i]] = NoOne
  /\ socket' = [socket EXCEPT ![port[i]] = i]
  /\ pc' = [pc EXCEPT ![i] = "save open"]
  /\ UNCHANGED <<table, items, ended, lock, req, ops, restarts>>

(* The port is taken, by a tunnel or another process for all we know.      *)
ListenFails(i) ==
  /\ pc[i] = "listen"
  /\ pc' = [pc EXCEPT ![i] = "save error"]
  /\ UNCHANGED <<table, items, ended, socket, lock, req, ops, restarts>>

SaveOpen(i) ==
  /\ pc[i] = "save open"
  /\ Save(i, "open")
  /\ pc' = [pc EXCEPT ![i] = "serve"]
  /\ UNCHANGED <<port, items, ended, socket, lock, req, ops, restarts>>

(* The goroutine returns, and cancels its context: no listener is left.    *)
SaveError(i) ==
  /\ pc[i] = "save error"
  /\ Save(i, "error")
  /\ pc' = [pc EXCEPT ![i] = "done"]
  /\ ended' = ended \cup {i}
  /\ UNCHANGED <<port, items, socket, lock, req, ops, restarts>>

Freed(i) == [p \in Ports |-> IF socket[p] = i THEN NoOne ELSE socket[p]]

(* Variant: a goroutine that finds its context done returns, and leaves    *)
(* its listener open.                                                      *)
ServeSkipped(i) ==
  /\ pc[i] = "serve" /\ i \in ended
  /\ pc' = [pc EXCEPT ![i] = "done"]
  /\ UNCHANGED <<table, items, ended, socket, lock, req, ops, restarts>>

(* The goroutine that waits for the context closes the server; Serve on a  *)
(* closed server closes its listener and returns.                          *)
ServeEnds(i) ==
  /\ pc[i] = "serve" /\ i \in ended
  /\ socket' = Freed(i)
  /\ pc' = [pc EXCEPT ![i] = "done"]
  /\ UNCHANGED <<table, items, ended, lock, req, ops, restarts>>

(* Accept fails.                                                           *)
ServeFails(i) ==
  /\ pc[i] = "serve"
  /\ socket' = Freed(i)
  /\ pc' = [pc EXCEPT ![i] = "save error"]
  /\ UNCHANGED <<table, items, ended, lock, req, ops, restarts>>

ServerStep(i) ==
  \/ Listen(i) \/ ListenFails(i) \/ SaveOpen(i) \/ SaveError(i)
  \/ ServeEnds(i) \/ ServeFails(i)

-----------------------------------------------------------------------------
(* Requests.                                                               *)

Goes(r, where) == req' = [req EXCEPT ![r].pc = where]
Ends(r) == req' = [req EXCEPT ![r] = Idle]

Arrives(r) == req[r] = Idle /\ ops < MaxOps /\ ops' = ops + 1

(* The INSERT of a new listener, whose port is UNIQUE in the table; next   *)
(* is where the handler goes on.                                           *)
Insert(r, i, p, next) ==
  /\ Arrives(r)
  /\ port[i] = NoOne
  /\ \A j \in Ids : rows[j] # "none" => port[j] # p
  /\ rows' = [rows EXCEPT ![i] = "closed"]
  /\ port' = [port EXCEPT ![i] = p]
  /\ req' = [req EXCEPT ![r] = At(next, i, 0)]
  /\ UNCHANGED <<manager, lock, restarts>>

CreateListener(r) == \E i \in Ids, p \in Ports : Insert(r, i, p, "start")

PortInUse(p) == \E j \in items : port[j] = p

StartListener(r) ==
  /\ req[r].pc = "start" /\ lock = NoOne
  /\ ~PortInUse(port[req[r].id])
  /\ items' = items \cup {req[r].id}
  /\ pc' = [pc EXCEPT ![req[r].id] = "listen"]
  /\ Ends(r)
  /\ UNCHANGED <<table, ended, socket, lock, ops, restarts>>

StartRefused(r) ==
  /\ req[r].pc = "start" /\ lock = NoOne
  /\ PortInUse(port[req[r].id])
  /\ Goes(r, "mark")
  /\ UNCHANGED <<table, manager, lock, ops, restarts>>

MarkError(r) ==
  /\ req[r].pc = "mark"
  /\ Save(req[r].id, "error")
  /\ Ends(r)
  /\ UNCHANGED <<port, manager, lock, ops, restarts>>

(* An update reads the row, changes what the request asks for and writes   *)
(* it all back: the status it has read, too.                               *)
ReadForUpdate(r) ==
  /\ Arrives(r)
  /\ \E i \in Ids :
       /\ rows[i] # "none"
       /\ \E s \in Wanted \cup {rows[i]} : req' = [req EXCEPT ![r] = At("write", i, s)]
  /\ UNCHANGED <<table, manager, lock, restarts>>

WriteRow(r) ==
  /\ req[r].pc = "write"
  /\ Save(req[r].id, req[r].arg)
  /\ Ends(r)
  /\ UNCHANGED <<port, manager, lock, ops, restarts>>

ReadForDelete(r) ==
  /\ Arrives(r)
  /\ \E i \in Ids : rows[i] # "none" /\ req' = [req EXCEPT ![r] = At("stop", i, 0)]
  /\ UNCHANGED <<table, manager, lock, restarts>>

(* StopListener: not found, ...                                            *)
StopNotFound(r) ==
  /\ req[r].pc = "stop" /\ lock = NoOne
  /\ req[r].id \notin items
  /\ Goes(r, "drop")
  /\ UNCHANGED <<table, manager, lock, ops, restarts>>

(* Variant: the context is left alone.                                     *)
StopForgets(r) ==
  /\ req[r].pc = "stop" /\ lock = NoOne
  /\ req[r].id \in items
  /\ lock' = r
  /\ Goes(r, "stopping")
  /\ UNCHANGED <<table, manager, ops, restarts>>

(* ... or the context is cancelled, ...                                    *)
StopListener(r) ==
  /\ req[r].pc = "stop" /\ lock = NoOne
  /\ req[r].id \in items
  /\ lock' = r
  /\ ended' = ended \cup {req[r].id}
  /\ Goes(r, "stopping")
  /\ UNCHANGED <<table, items, pc, socket, ops, restarts>>

(* ... the row says closed, and the listener is no longer in the map.      *)
Stopped(r) ==
  /\ req[r].pc = "stopping"
  /\ Save(req[r].id, "closed")
  /\ items' = items \ {req[r].id}
  /\ lock' = NoOne
  /\ Goes(r, "drop")
  /\ UNCHANGED <<port, pc, ended, socket, ops, restarts>>

DeleteListener(r) ==
  /\ req[r].pc = "drop"
  /\ rows' = [rows EXCEPT ![req[r].id] = "none"]
  /\ Ends(r)
  /\ UNCHANGED <<port, manager, lock, ops, restarts>>

(* What a request that has begun does next.                                *)
RequestStep(r) ==
  \/ StartListener(r) \/ StartRefused(r) \/ MarkError(r) \/ WriteRow(r)
  \/ StopNotFound(r) \/ StopListener(r) \/ Stopped(r) \/ DeleteListener(r)

RequestArrives(r) == CreateListener(r) \/ ReadForUpdate(r) \/ ReadForDelete(r)

(* The process ends and starts again, with TLS: NewServer closes the open  *)
(* rows, and restoreListeners runs every listener whose row says closed.   *)
Restart ==
  /\ restarts < MaxRestart
  /\ restarts' = restarts + 1
  /\ LET kept == {i \in Ids : rows[i] \in {"closed", "open"}} IN
     /\ rows' = [i \in Ids |-> IF i \in kept THEN "closed" ELSE rows[i]]
     /\ items' = kept
     /\ pc' = [i \in Ids |-> IF i \in kept THEN "listen" ELSE "none"]
  /\ ended' = {}
  /\ socket' = [p \in Ports |-> NoOne]
  /\ lock' = NoOne
  /\ req' = [r \in Requests |-> Idle]
  /\ UNCHANGED <<port, ops>>

(* The steps of one process.                                               *)
ListenersStep ==
  \/ \E i \in Ids : ServerStep(i)
  \/ \E r \in Requests : RequestArrives(r) \/ RequestStep(r)

-----------------------------------------------------------------------------
(* Properties.                                                             *)

ListenersTypeOK ==
  /\ rows \in [Ids -> Statuses \cup {"none"}]
  /\ port \in [Ids -> Ports \cup {NoOne}]
  /\ items \subseteq {i \in Ids : port[i] # NoOne}
  /\ ended \subseteq Ids
  /\ pc \in [Ids -> {"none", "listen", "save open", "save error", "serve", "done"}]
  /\ socket \in [Ports -> Ids \cup {NoOne}]
  /\ lock \in Requests \cup {NoOne}
  /\ \A p \in Ports : socket[p] # NoOne => port[socket[p]] = p
  /\ \A r \in Requests : req[r].pc = "stopping" <=> lock = r

(* The manager loses no server: a server that runs and that nobody has     *)
(* stopped can still be found, and stopped, by its id; a create, a delete  *)
(* and the goroutine of the server may interleave in any way.              *)
NoServerLost ==
  \A i \in Ids : pc[i] \notin {"none", "done"} /\ i \notin ended => i \in items

(* No two listeners of the manager have one port, the UNIQUE column of the *)
(* table notwithstanding: a row may be deleted while its listener is about *)
(* to start, and the port given to another.                                *)
OneListenerPerPort ==
  \A i, j \in items : port[i] = port[j] => i = j

(* A stopped server gives its port back, also when the stop came before    *)
(* net.Listen or before Serve.                                             *)
StoppedFreesPort ==
  \A i \in Ids : i \in ended ~> (\A p \in Ports : socket[p] # i)
=============================================================================
