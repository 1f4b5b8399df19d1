------------------------------ MODULE Multicast -----------------------------
(***************************************************************************)
(* Multicast endpoints: the table of multicasts, the manager that runs an  *)
(* HTTPS server for each enabled one (server/multicast_manager.go), the    *)
(* administrators' requests (server/server_api_multicast.go), and the      *)
(* tunnel sessions that subscribe to a multicast instead of listening on   *)
(* its port (server/server_handler.go).                                    *)
(*                                                                         *)
(* The manager's mutex makes StartMulticast one step, and StopMulticast    *)
(* two: the goroutine of the server takes no mutex and may run between.    *)
(***************************************************************************)
EXTENDS Integers, Sequences, FiniteSets, SequencesExt

CONSTANTS
  Multicasts,   \* identifiers, each created at most once
  Ports,
  Sessions,     \* tunnel sessions, each with one remote
  PortOf,       \* the local port of that remote
  Admins,       \* requests of administrators in progress at once
  Changes,      \* what an update may ask: members of AllChanges
  MaxOps,       \* bound: requests of administrators
  MaxCrash,     \* bound: ends of the process
  NoOne         \* owner of a free port; also: no row, no item

AllChanges == {"name", "mode", "on", "off", "port", "port and on"}

ASSUME MulticastAssumption ==
  /\ PortOf \in [Sessions -> Ports]
  /\ Changes \subseteq AllChanges
  /\ MaxOps \in Nat /\ MaxCrash \in Nat
  /\ NoOne \notin Admins /\ \A x \in Sessions \cup {NoOne} : x \notin Nat

VARIABLES
  rows,      \* the table: id -> row, or NoOne
  items,     \* MulticastManager.items: id -> instance, or NoOne
  inst,      \* every instance the process made: its Config, where its server
             \* goroutine is, whether Close was called, the arguments of its
             \* next UPDATE
  subs,      \* instance -> its subscribers
  socket,    \* port -> the instance or session that listens on it
  lock,      \* the administrator in StopMulticast, or NoOne
  admin,     \* request -> what it does, to which id, with which copy
  session,   \* session -> its progress
  joined,    \* history: the instance a subscriber joined
  stopped,   \* history: the ids whose last start or stop was a stop
  ops, crashes

vars == <<rows, items, inst, subs, socket, lock, admin, session, joined, stopped,
          ops, crashes>>
server == <<items, inst, subs, socket, lock>>
others == <<session, joined, crashes>>

(* The name and the mode are data nothing below tells apart.               *)
Row(port, enabled, status) == [port |-> port, enabled |-> enabled, status |-> status]
Inst(m, r, pc) == [id |-> m, cfg |-> r, pc |-> pc, closed |-> FALSE, args |-> NoOne]
Request(pc, m, r) == [pc |-> pc, id |-> m, row |-> r]
NoRequest == Request("idle", NoOne, NoOne)
Instances == DOMAIN inst
Running == {m \in Multicasts : items[m] # NoOne}

PortTaken(p, except) == \E m \in Multicasts \ {except} : rows[m] # NoOne /\ rows[m].port = p

Init ==
  /\ rows = [m \in Multicasts |-> NoOne]
  /\ items = [m \in Multicasts |-> NoOne]
  /\ inst = <<>> /\ subs = <<>>
  /\ socket = [p \in Ports |-> NoOne]
  /\ lock = NoOne
  /\ admin = [a \in Admins |-> NoRequest]
  /\ session = [s \in Sessions |-> "new"]
  /\ joined = [s \in Sessions |-> NoOne]
  /\ stopped = {}
  /\ ops = 0 /\ crashes = 0

-----------------------------------------------------------------------------
(* The server goroutine of instance i.                                     *)

(* net.Listen, and the status it leaves in the Config.                     *)
Listen(i) ==
  /\ inst[i].pc = "listen"
  /\ LET p == inst[i].cfg.port IN
     IF socket[p] = NoOne
     THEN /\ socket' = [socket EXCEPT ![p] = i]
          /\ inst' = [inst EXCEPT ![i].cfg.status = "open", ![i].pc = "readOpen"]
     ELSE /\ inst' = [inst EXCEPT ![i].cfg.status = "error", ![i].pc = "readError"]
          /\ UNCHANGED socket
  /\ UNCHANGED <<rows, items, subs, lock, admin, others, stopped, ops>>

(* UpdateMulticastTunnel first reads the Config, without the mutex, ...    *)
ReadConfig(i) ==
  /\ \/ inst[i].pc = "readOpen"
        /\ inst' = [inst EXCEPT ![i].args = inst[i].cfg, ![i].pc = "saveOpen"]
     \/ inst[i].pc = "readError"
        /\ inst' = [inst EXCEPT ![i].args = inst[i].cfg, ![i].pc = "saveError"]
  /\ UNCHANGED <<rows, items, subs, socket, lock, admin, others, stopped, ops>>

(* An UPDATE of a row that is gone, or onto a port another row has, fails. *)
Save(m, r) ==
  rows' = IF rows[m] = NoOne \/ PortTaken(r.port, m) THEN rows ELSE [rows EXCEPT ![m] = r]

(* ... and then executes.                                                  *)
SaveConfig(i) ==
  /\ \/ inst[i].pc = "saveOpen" /\ inst' = [inst EXCEPT ![i].pc = "serve", ![i].args = NoOne]
     \/ inst[i].pc = "saveError" /\ inst' = [inst EXCEPT ![i].pc = "done", ![i].args = NoOne]
  /\ Save(inst[i].id, inst[i].args)
  /\ UNCHANGED <<items, subs, socket, lock, admin, others, stopped, ops>>

Freed(i) == [p \in Ports |-> IF socket[p] = i THEN NoOne ELSE socket[p]]

(* Serve on a server that is already closed closes the listener at once.   *)
Serve(i) ==
  /\ inst[i].pc = "serve"
  /\ IF inst[i].closed
     THEN socket' = Freed(i) /\ inst' = [inst EXCEPT ![i].pc = "done"]
     ELSE inst' = [inst EXCEPT ![i].pc = "serving"] /\ UNCHANGED socket
  /\ UNCHANGED <<rows, items, subs, lock, admin, others, stopped, ops>>

(* Accept fails.                                                           *)
ServeFails(i) ==
  /\ inst[i].pc = "serving"
  /\ socket' = Freed(i)
  /\ inst' = [inst EXCEPT ![i].cfg.status = "error", ![i].pc = "readError"]
  /\ UNCHANGED <<rows, items, subs, lock, admin, others, stopped, ops>>

ServerStep(i) == Listen(i) \/ ReadConfig(i) \/ SaveConfig(i) \/ Serve(i) \/ ServeFails(i)

-----------------------------------------------------------------------------
(* The manager.                                                            *)

(* StartMulticast refuses a port that an instance already has.             *)
PortInUse(p) == \E m \in Running : inst[items[m]].cfg.port = p

(* Variant: the running instances are not looked at.                       *)
StartUnchecked(m, r) ==
  /\ lock = NoOne
  /\ inst' = Append(inst, Inst(m, r, "listen"))
  /\ subs' = Append(subs, {})
  /\ items' = [items EXCEPT ![m] = Len(inst) + 1]
  /\ stopped' = stopped \ {m}
  /\ UNCHANGED <<socket, lock>>

(* Variant: the map of subscribers is not made.                            *)
StartWithoutSubs(m, r) ==
  /\ lock = NoOne /\ ~PortInUse(r.port)
  /\ inst' = Append(inst, Inst(m, r, "listen"))
  /\ items' = [items EXCEPT ![m] = Len(inst) + 1]
  /\ stopped' = stopped \ {m}
  /\ UNCHANGED <<subs, socket, lock>>

StartMulticast(m, r) ==
  /\ lock = NoOne /\ ~PortInUse(r.port)
  /\ inst' = Append(inst, Inst(m, r, "listen"))
  /\ subs' = Append(subs, {})
  /\ items' = [items EXCEPT ![m] = Len(inst) + 1]
  /\ stopped' = stopped \ {m}
  /\ UNCHANGED <<socket, lock>>

StartRefused(r) == lock = NoOne /\ PortInUse(r.port) /\ UNCHANGED <<server, stopped>>

(* StopMulticast: Cancel, Close, and the Config disabled and closed, ...   *)
CloseServer(m, a) ==
  LET i == items[m]  serving == inst[i].pc = "serving" IN
  /\ lock = NoOne /\ items[m] # NoOne
  /\ lock' = a
  /\ inst' = [inst EXCEPT ![i].closed = TRUE,
                          ![i].pc = IF serving THEN "done" ELSE @,
                          ![i].cfg.enabled = FALSE, ![i].cfg.status = "closed"]
  /\ socket' = IF serving THEN Freed(i) ELSE socket
  /\ UNCHANGED <<items, subs>>

(* ... then the row, then the map.                                         *)
ForgetServer(m, a) ==
  /\ lock = a
  /\ Save(m, inst[items[m]].cfg)
  /\ items' = [items EXCEPT ![m] = NoOne]
  /\ stopped' = stopped \cup {m}
  /\ lock' = NoOne
  /\ UNCHANGED <<inst, subs, socket>>

StopNotFound(m) == lock = NoOne /\ items[m] = NoOne

-----------------------------------------------------------------------------
(* Requests of administrators.  A request goes to "start", to "stop" and   *)
(* "forget" (with a last step after it: "startAfter", "delete"), or ends.  *)

Becomes(a, q) == admin' = [admin EXCEPT ![a] = q]
Ends(a) == Becomes(a, NoRequest)
Arrives(a) == admin[a] = NoRequest /\ ops < MaxOps /\ ops' = ops + 1

(* handleCreateMulticastTunnel, up to StartMulticast: the INSERT refuses a *)
(* port another row has.                                                   *)
Create(a, m, p, enabled) ==
  LET r == Row(p, enabled, "closed") IN
  /\ Arrives(a)
  /\ rows[m] = NoOne /\ m \notin stopped /\ \A i \in Instances : inst[i].id # m
  /\ \A b \in Admins : admin[b].id # m
  /\ ~PortTaken(p, m)
  /\ rows' = [rows EXCEPT ![m] = r]
  /\ IF enabled THEN Becomes(a, Request("startNew", m, r)) ELSE Ends(a)
  /\ UNCHANGED <<server, others, stopped>>

(* handleUpdateMulticastTunnel reads the row, ...                          *)
ReadRow(a, m) ==
  /\ Arrives(a)
  /\ rows[m] # NoOne
  /\ Becomes(a, Request("write", m, rows[m]))
  /\ UNCHANGED <<rows, server, others, stopped>>

(* ... applies the changes to its copy and writes it back whole.  The      *)
(* runtime follows a request to enable or disable, or a change of mode.    *)
Changed(r, change, p) ==
  CASE change = "on" -> [r EXCEPT !.enabled = TRUE]
    [] change = "off" -> [r EXCEPT !.enabled = FALSE]
    [] change = "port" -> [r EXCEPT !.port = p]
    [] change = "port and on" -> [r EXCEPT !.port = p, !.enabled = TRUE]
    [] OTHER -> r
Follow(change, r) ==
  CASE change \in {"on", "port and on"} -> "start"
    [] change = "off" -> "stop"
    [] change = "mode" /\ r.enabled -> "restart"
    [] OTHER -> "none"

WriteRow(a, change, p) ==
  LET m == admin[a].id  r == Changed(admin[a].row, change, p)  next == Follow(change, r) IN
  /\ admin[a].pc = "write"
  /\ Save(m, r)
  /\ IF rows[m] = NoOne \/ PortTaken(r.port, m) \/ next = "none"
     THEN Ends(a)
     ELSE Becomes(a, Request(next, m, r))
  /\ UNCHANGED <<server, others, stopped, ops>>

Delete(a, m) ==
  /\ Arrives(a)
  /\ rows[m] # NoOne
  /\ Becomes(a, Request("deleteStop", m, NoOne))
  /\ UNCHANGED <<rows, server, others, stopped>>

(* A refused start is an error of the row when it was being created, and   *)
(* ignored when it was updated.                                            *)
DoStart(a) ==
  LET m == admin[a].id  r == admin[a].row IN
  /\ admin[a].pc \in {"startNew", "start"}
  /\ \/ StartMulticast(m, r) /\ UNCHANGED rows
     \/ /\ StartRefused(r)
        /\ IF admin[a].pc = "startNew" THEN Save(m, [r EXCEPT !.status = "error"])
           ELSE UNCHANGED rows
  /\ Ends(a)
  /\ UNCHANGED <<others, ops>>

AfterStop(pc) == CASE pc \in {"restart", "restartForget"} -> "start"
                   [] pc \in {"deleteStop", "deleteForget"} -> "delete"
                   [] OTHER -> "none"
Proceeds(a) ==
  LET q == admin[a] IN
  IF AfterStop(q.pc) = "none" THEN Ends(a)
  ELSE Becomes(a, Request(AfterStop(q.pc), q.id, q.row))
Forgetting(pc) == CASE pc = "restart" -> "restartForget"
                    [] pc = "deleteStop" -> "deleteForget"
                    [] OTHER -> "forget"

DoStop(a) ==
  LET q == admin[a] IN
  /\ q.pc \in {"stop", "restart", "deleteStop"}
  /\ \/ /\ CloseServer(q.id, a)
        /\ Becomes(a, Request(Forgetting(q.pc), q.id, q.row))
     \/ StopNotFound(q.id) /\ Proceeds(a) /\ UNCHANGED server
  /\ UNCHANGED <<rows, others, stopped, ops>>

DoForget(a) ==
  /\ admin[a].pc \in {"forget", "restartForget", "deleteForget"}
  /\ ForgetServer(admin[a].id, a)
  /\ Proceeds(a)
  /\ UNCHANGED <<others, ops>>

DoDelete(a) ==
  /\ admin[a].pc = "delete"
  /\ rows' = [rows EXCEPT ![admin[a].id] = NoOne]
  /\ Ends(a)
  /\ UNCHANGED <<server, others, stopped, ops>>

AdminStep(a) ==
  \/ \E m \in Multicasts :
       \/ \E p \in Ports, enabled \in BOOLEAN : Create(a, m, p, enabled)
       \/ ReadRow(a, m) \/ Delete(a, m)
  \/ \E change \in Changes, p \in Ports : WriteRow(a, change, p)
  \/ DoStart(a) \/ DoStop(a) \/ DoForget(a) \/ DoDelete(a)

-----------------------------------------------------------------------------
(* Sessions.                                                               *)

Goes(s, from, to) == session[s] = from /\ session' = [session EXCEPT ![s] = to]

ActiveOn(p) == {m \in Running : inst[items[m]].cfg.port = p /\ inst[items[m]].cfg.enabled}

(* getActiveByPort decides between subscribing and listening, ...          *)
Lookup(s) ==
  /\ lock = NoOne
  /\ Goes(s, "new", IF ActiveOn(PortOf[s]) # {} THEN "add" ELSE "bind")
  /\ UNCHANGED <<rows, server, admin, joined, stopped, ops, crashes>>

(* ... AddSubscriber looks the port up again, and its error is ignored.    *)
AddSubscriber(s) ==
  /\ lock = NoOne
  /\ Goes(s, "add", "subscriber")
  /\ IF ActiveOn(PortOf[s]) = {} THEN UNCHANGED <<subs, joined>>
     ELSE \E m \in ActiveOn(PortOf[s]) :
            /\ subs' = [subs EXCEPT ![items[m]] = @ \cup {s}]
            /\ joined' = [joined EXCEPT ![s] = items[m]]
  /\ UNCHANGED <<rows, items, inst, socket, lock, admin, stopped, ops, crashes>>

Bind(s) ==
  /\ IF socket[PortOf[s]] = NoOne
     THEN Goes(s, "bind", "bound") /\ socket' = [socket EXCEPT ![PortOf[s]] = s]
     ELSE Goes(s, "bind", "done") /\ UNCHANGED socket
  /\ UNCHANGED <<rows, items, inst, subs, lock, admin, joined, stopped, ops, crashes>>

Unbind(s) ==
  /\ Goes(s, "bound", "done")
  /\ socket' = Freed(s)
  /\ UNCHANGED <<rows, items, inst, subs, lock, admin, joined, stopped, ops, crashes>>

(* Variant: the lookup of the removal takes any multicast.                 *)
RemoveFromAny(s) ==
  /\ lock = NoOne
  /\ Goes(s, "subscriber", "done")
  /\ IF Running = {} THEN UNCHANGED subs
     ELSE \E m \in Running : subs' = [subs EXCEPT ![items[m]] = @ \ {s}]
  /\ joined' = [joined EXCEPT ![s] = NoOne]
  /\ UNCHANGED <<rows, items, inst, socket, lock, admin, stopped, ops, crashes>>

(* ctx.Done: RemoveSubscriber looks the port up once more.                 *)
RemoveSubscriber(s) ==
  /\ lock = NoOne
  /\ Goes(s, "subscriber", "done")
  /\ IF ActiveOn(PortOf[s]) = {} THEN UNCHANGED subs
     ELSE \E m \in ActiveOn(PortOf[s]) : subs' = [subs EXCEPT ![items[m]] = @ \ {s}]
  /\ joined' = [joined EXCEPT ![s] = NoOne]
  /\ UNCHANGED <<rows, items, inst, socket, lock, admin, stopped, ops, crashes>>

SessionStep(s) == Lookup(s) \/ AddSubscriber(s) \/ Bind(s) \/ Unbind(s) \/ RemoveSubscriber(s)

-----------------------------------------------------------------------------
(* The process ends and starts again; restoreMulticasts starts the rows    *)
(* that are enabled, in the order they were created.                       *)
RestoreInOrder(q) ==
  /\ crashes < MaxCrash /\ crashes' = crashes + 1
  /\ inst' = [k \in DOMAIN q |-> Inst(q[k], rows[q[k]], "listen")]
  /\ subs' = [k \in DOMAIN q |-> {}]
  /\ items' = [m \in Multicasts |->
                 IF Contains(q, m) THEN CHOOSE k \in DOMAIN q : q[k] = m ELSE NoOne]
  /\ socket' = [p \in Ports |-> NoOne]
  /\ lock' = NoOne
  /\ admin' = [a \in Admins |-> NoRequest]
  /\ session' = [s \in Sessions |-> IF session[s] = "new" THEN "new" ELSE "done"]
  /\ joined' = [s \in Sessions |-> NoOne]
  /\ stopped' = {}
  /\ UNCHANGED <<rows, ops>>

Restart ==
  \E q \in SetToSeqs({m \in Multicasts : rows[m] # NoOne /\ rows[m].enabled}) : RestoreInOrder(q)

Next ==
  \/ \E i \in Instances : ServerStep(i)
  \/ \E a \in Admins : AdminStep(a)
  \/ \E s \in Sessions : SessionStep(s)
  \/ Restart

Spec == Init /\ [][Next]_vars

-----------------------------------------------------------------------------
(* Properties.                                                             *)

RowType == [port : Ports, enabled : BOOLEAN, status : {"open", "closed", "error"}]

TypeOK ==
  /\ rows \in [Multicasts -> RowType \cup {NoOne}]
  /\ items \in [Multicasts -> Instances \cup {NoOne}]
  /\ \A i \in Instances : inst[i].cfg \in RowType /\ inst[i].id \in Multicasts
  /\ Len(subs) = Len(inst)
  /\ \A i \in Instances : subs[i] \subseteq Sessions
  /\ socket \in [Ports -> Instances \cup Sessions \cup {NoOne}]
  /\ stopped \subseteq Multicasts

(* An instance that holds its port is the one its id names, so that a stop *)
(* reaches it, or it was closed and is about to give the port back: "Start *)
(* / stop / restart runtime as needed" loses no server, but one: an update *)
(* that enables a running multicast on another port starts a second server *)
(* and forgets the first.                                                  *)
MovedAway(i) ==
  \E j \in Instances : j > i /\ inst[j].id = inst[i].id /\ inst[j].cfg.port # inst[i].cfg.port
NoOrphanServer ==
  \A i \in Instances : (\E p \in Ports : socket[p] = i) =>
    items[inst[i].id] = i \/ inst[i].closed \/ MovedAway(i)

(* A session is a subscriber of the instance it joined, and of no other,   *)
(* until it ends or that instance is stopped: an endpoint never sends to   *)
(* sessions that are gone.                                                 *)
SubscribersExact ==
  \A m \in Running : subs[items[m]] =
    {s \in Sessions : session[s] = "subscriber" /\ joined[s] = items[m]}

(* "Ensure DB reflects disabled + closed to avoid re-enabling via stale    *)
(* in-memory copy": once everything has come to rest, a multicast that was *)
(* stopped is disabled and closed in the table.  It need not be.           *)
AtRest ==
  /\ \A a \in Admins : admin[a] = NoRequest
  /\ \A i \in Instances : inst[i].pc \in {"serving", "done"}
StoppedStaysClosed ==
  AtRest => \A m \in stopped : rows[m] # NoOne =>
    ~rows[m].enabled /\ rows[m].status = "closed"
=============================================================================
