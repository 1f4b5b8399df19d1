---------------------------- MODULE ServerSession ----------------------------
(***************************************************************************)
(* handleWebsocket (server/server_handler.go): the life of the server's    *)
(* sessions and of their rows in the tunnels table, from the checks of the *)
(* configuration to the last UPDATE, with the heartbeat, the reconciler,   *)
(* the proxied connections that count themselves in the rows, the          *)
(* dashboard's clean-up and restarts of the process.                       *)
(*                                                                         *)
(* A session writes its base row "sess-N" and one canonical row per        *)
(* remote, named after the user and the port, which later sessions of the  *)
(* same user reuse.  Each SQL statement is one step; its errors are        *)
(* ignored by the code, and in MaxFail steps they may fail.                *)
(*                                                                         *)
(* Time is counted in heartbeat periods (60 s).  Tick assumes that a       *)
(* heartbeat, and the statements that open a session's rows, are done      *)
(* within one period.                                                      *)
(***************************************************************************)
EXTENDS Integers, Sequences, FiniteSets

CONSTANTS
  Sessions,    \* calls of handleWebsocket, each used once
  Users, Ports,
  UserOf,      \* the user a session authenticated as
  RemotesOf,   \* the local ports of the session's remotes, in order
  Conns,       \* proxied connections, each used once
  Free, Leaked, NoOne,
  MaxFail,     \* bound: steps in which an SQL statement fails
  MaxCrash     \* bound: crashes of the server

ASSUME SessionAssumption ==
  /\ UserOf \in [Sessions -> Users]
  /\ RemotesOf \in [Sessions -> Seq(Ports)]
  /\ "sess" \notin Users
  /\ MaxFail \in Nat /\ MaxCrash \in Nat

VARIABLES
  up,         \* the process runs
  sessCount,  \* Server.sessCount
  pc,         \* where the handler of a session is
  num,        \* the number a session drew from sessCount
  idx,        \* the handler's loop index; 0 is the base row
  bind,       \* the errgroup goroutine in BindSSH
  rem,        \* the errgroup goroutine in BindRemotes
  hb,         \* the heartbeat goroutine is running
  due,        \* its ticker has fired
  err,        \* the errgroup's first error; not "nil": its context is done
  listen,     \* who listens on a port
  rows,       \* the tunnels table
  cst, cof,   \* proxied connections: state, and their session and port
  fails, crashes

sess == <<num, idx, bind, rem, hb, due, err>>
proxied == <<cst, cof>>
bounds == <<fails, crashes>>
vars == <<up, sessCount, pc, sess, listen, rows, proxied, bounds>>

Stale == 2    \* the reconciler's two minutes, in periods

Base(n) == <<"sess", n>>
Canon(u, p) == <<u, p>>
RowIds == ({"sess"} \X Nat) \cup (Users \X Ports)
Len0(s) == Len(RemotesOf[s])
RowAt(s, i) == IF i = 0 THEN Base(num[s]) ELSE Canon(UserOf[s], RemotesOf[s][i])
RowsOf(s) == {RowAt(s, i) : i \in 0..Len0(s)}
Rows == [status : {"open", "closed", "error"}, user : Users,
         age : 0..Stale, conns : Int]

Opening == {"close", "create", "update"}
PCs == {"idle", "validate", "running", "final", "done"} \cup Opening
Cancelled(s) == err[s] # "nil"

(* The table is a function on the rows that exist.                         *)
IsTable(f) == DOMAIN f \subseteq RowIds /\ \A r \in DOMAIN f : f[r] \in Rows

TypeOK ==
  /\ up \in BOOLEAN
  /\ sessCount \in Nat
  /\ pc \in [Sessions -> PCs]
  /\ num \in [Sessions -> Nat]
  /\ idx \in [Sessions -> Nat]
  /\ bind \in [Sessions -> {"off", "up", "ended"}]
  /\ rem \in [Sessions -> {"off", "listening", "serving", "ended"}]
  /\ hb \in [Sessions -> BOOLEAN] /\ due \in [Sessions -> BOOLEAN]
  /\ err \in [Sessions -> {"nil", "EOF", "other"}]
  /\ listen \in [Ports -> Sessions \cup {Free, Leaked}]
  /\ IsTable(rows)
  /\ cst \in [Conns -> {"none", "accepted", "open", "closed"}]
  /\ cof \in [Conns -> (Sessions \X Ports) \cup {NoOne}]
  /\ fails \in 0..MaxFail /\ crashes \in 0..MaxCrash

Init ==
  /\ up = TRUE /\ sessCount = 0
  /\ pc = [s \in Sessions |-> "idle"]
  /\ num = [s \in Sessions |-> 0] /\ idx = [s \in Sessions |-> 0]
  /\ bind = [s \in Sessions |-> "off"] /\ rem = [s \in Sessions |-> "off"]
  /\ hb = [s \in Sessions |-> FALSE] /\ due = [s \in Sessions |-> FALSE]
  /\ err = [s \in Sessions |-> "nil"]
  /\ listen = [p \in Ports |-> Free]
  /\ rows = [r \in {} |-> NoOne]
  /\ cst = [c \in Conns |-> "none"] /\ cof = [c \in Conns |-> NoOne]
  /\ fails = 0 /\ crashes = 0

-----------------------------------------------------------------------------
(* The statements of share/database/tunnels.go, as the table they leave.   *)
(* An UPDATE whose WHERE matches no row changes nothing.                   *)

Row(st, u, age, n) == [status |-> st, user |-> u, age |-> age, conns |-> n]

Created(r, u) ==
  [x \in DOMAIN rows \cup {r} |->
     IF x = r THEN Row("open", u, 0, 0) ELSE rows[x]]

(* Variant: the zeroes of the caller are taken for NULL.                   *)
UpdatedKeepingCounters(r, st) ==
  [x \in DOMAIN rows |->
     IF x = r THEN Row(st, rows[x].user, 0, rows[x].conns) ELSE rows[x]]

(* COALESCE keeps a column for NULL only, and the caller's zeroes are not: *)
(* the counters restart; the username stays.                               *)
Updated(r, st) ==
  [x \in DOMAIN rows |->
     IF x = r THEN Row(st, rows[x].user, 0, 0) ELSE rows[x]]

Counted(R, d) ==
  [x \in DOMAIN rows |->
     IF x \in R THEN Row(rows[x].status, rows[x].user, 0, rows[x].conns + d)
              ELSE rows[x]]

(* The open rows of R, and MarkStaleTunnelsClosed: the old enough ones.    *)
ClosedOpen(R) ==
  [x \in DOMAIN rows |->
     IF x \in R /\ rows[x].status = "open"
     THEN Row("closed", rows[x].user, 0, rows[x].conns) ELSE rows[x]]

OlderThan(age) == {x \in DOMAIN rows : rows[x].age >= age}

Exec(table) ==
  \/ rows' = table /\ UNCHANGED fails
  \/ fails < MaxFail /\ fails' = fails + 1 /\ UNCHANGED rows

(* Best-effort statements, one per row of R, that add d to the row's       *)
(* connections: all succeed, or those of the rows in T do.                 *)
ExecCount(R, d) ==
  \/ rows' = Counted(R, d) /\ UNCHANGED fails
  \/ /\ fails < MaxFail /\ fails' = fails + 1
     /\ \E T \in SUBSET R : rows' = Counted(T, d)

-----------------------------------------------------------------------------
(* The handler up to its reply: the number it draws, the remotes checked   *)
(* in order.  CanListen listens and closes at once, so it only looks.      *)

Handshake(s) ==
  /\ up /\ pc[s] = "idle"
  /\ sessCount' = sessCount + 1
  /\ num' = [num EXCEPT ![s] = sessCount']
  /\ idx' = [idx EXCEPT ![s] = 1]
  /\ pc' = [pc EXCEPT ![s] = "validate"]
  /\ UNCHANGED <<up, bind, rem, hb, due, err, listen, rows, proxied, bounds>>

CheckRemote(s) ==
  /\ pc[s] = "validate" /\ idx[s] <= Len0(s)
  /\ \/ /\ listen[RemotesOf[s][idx[s]]] = Free
        /\ idx' = [idx EXCEPT ![s] = @ + 1]
        /\ UNCHANGED pc
     \/ /\ listen[RemotesOf[s][idx[s]]] # Free
        /\ pc' = [pc EXCEPT ![s] = "done"]
        /\ UNCHANGED idx
  /\ UNCHANGED <<up, sessCount, num, bind, rem, hb, due, err, listen, rows, proxied, bounds>>

(* Every other refusal: the configuration does not come in time or does    *)
(* not parse, the user has no access, the port is reserved.                *)
Refuse(s) ==
  /\ pc[s] = "validate"
  /\ pc' = [pc EXCEPT ![s] = "done"]
  /\ UNCHANGED <<up, sessCount, sess, listen, rows, proxied, bounds>>

Reply(s) ==
  /\ pc[s] = "validate" /\ idx[s] > Len0(s)
  /\ pc' = [pc EXCEPT ![s] = "create"]
  /\ idx' = [idx EXCEPT ![s] = 0]
  /\ UNCHANGED <<up, sessCount, num, bind, rem, hb, due, err, listen, rows, proxied, bounds>>

-----------------------------------------------------------------------------
(* The rows: the base row, then for each remote close the open row, and    *)
(* create or, when that fails, update.                                     *)

(* The next remote's row, or the start of the errgroup.                    *)
RowDone(s) ==
  IF idx[s] < Len0(s)
  THEN /\ idx' = [idx EXCEPT ![s] = @ + 1]
       /\ pc' = [pc EXCEPT ![s] = "close"]
       /\ UNCHANGED <<bind, rem, hb>>
  ELSE /\ idx' = [idx EXCEPT ![s] = 1]
       /\ pc' = [pc EXCEPT ![s] = "running"]
       /\ bind' = [bind EXCEPT ![s] = "up"]
       /\ rem' = [rem EXCEPT ![s] = "listening"]
       /\ hb' = [hb EXCEPT ![s] = TRUE]

CloseRow(s) ==
  /\ pc[s] = "close"
  /\ Exec(ClosedOpen({RowAt(s, idx[s])}))
  /\ pc' = [pc EXCEPT ![s] = "create"]
  /\ UNCHANGED <<up, sessCount, sess, listen, proxied, crashes>>

CreateRow(s) ==
  /\ pc[s] = "create"
  /\ RowAt(s, idx[s]) \notin DOMAIN rows
  /\ rows' = Created(RowAt(s, idx[s]), UserOf[s])
  /\ RowDone(s)
  /\ UNCHANGED <<up, sessCount, num, due, err, listen, proxied, bounds>>

(* The INSERT fails: the key is taken, or for another reason.              *)
CreateRowFails(s) ==
  /\ pc[s] = "create"
  /\ \/ RowAt(s, idx[s]) \in DOMAIN rows /\ UNCHANGED fails
     \/ fails < MaxFail /\ fails' = fails + 1
  /\ pc' = [pc EXCEPT ![s] = "update"]
  /\ UNCHANGED <<up, sessCount, sess, listen, rows, proxied, crashes>>

UpdateRow(s) ==
  /\ pc[s] = "update"
  /\ Exec(Updated(RowAt(s, idx[s]), "open"))
  /\ RowDone(s)
  /\ UNCHANGED <<up, sessCount, num, due, err, listen, proxied, crashes>>

-----------------------------------------------------------------------------
(* The errgroup: the first error cancels the context of all.               *)

FirstError(s, e) == err' = [err EXCEPT ![s] = IF @ = "nil" THEN e ELSE @]

(* BindSSH never returns nil: the connection is lost, or the link          *)
(* goroutine closed it because the context is done.                        *)
BindEnds(s) ==
  /\ bind[s] = "up"
  /\ bind' = [bind EXCEPT ![s] = "ended"]
  /\ \E e \in {"EOF", "other"} : FirstError(s, e)
  /\ UNCHANGED <<up, sessCount, pc, num, idx, rem, hb, due, listen, rows, proxied, bounds>>

(* BindRemotes: a proxy listens as soon as it is made.                     *)
Listen(s) ==
  /\ rem[s] = "listening" /\ idx[s] <= Len0(s)
  /\ listen[RemotesOf[s][idx[s]]] = Free
  /\ listen' = [listen EXCEPT ![RemotesOf[s][idx[s]]] = s]
  /\ idx' = [idx EXCEPT ![s] = @ + 1]
  /\ UNCHANGED <<up, sessCount, pc, num, bind, rem, hb, due, err, rows, proxied, bounds>>

(* When one cannot, BindRemotes returns without closing the listeners it   *)
(* already has: nothing refers to them any more.                           *)
ListenFails(s) ==
  /\ rem[s] = "listening" /\ idx[s] <= Len0(s)
  /\ listen[RemotesOf[s][idx[s]]] # Free
  /\ listen' = [p \in Ports |-> IF listen[p] = s THEN Leaked ELSE listen[p]]
  /\ rem' = [rem EXCEPT ![s] = "ended"]
  /\ FirstError(s, "other")
  /\ UNCHANGED <<up, sessCount, pc, num, idx, bind, hb, due, rows, proxied, bounds>>

(* All listen; with no remote at all the goroutine returns nil.            *)
Serve(s) ==
  /\ rem[s] = "listening" /\ idx[s] > Len0(s)
  /\ rem' = [rem EXCEPT ![s] = IF Len0(s) = 0 THEN "ended" ELSE "serving"]
  /\ UNCHANGED <<up, sessCount, pc, num, idx, bind, hb, due, err, listen, rows, proxied, bounds>>

CloseProxy(s) ==
  /\ rem[s] = "serving" /\ Cancelled(s)
  /\ \E p \in Ports : listen[p] = s /\ listen' = [listen EXCEPT ![p] = Free]
  /\ UNCHANGED <<up, sessCount, pc, sess, rows, proxied, bounds>>

(* Variant: Run returns without waiting for its listener to close.         *)
ServeEndsAtOnce(s) ==
  /\ rem[s] = "serving" /\ Cancelled(s)
  /\ rem' = [rem EXCEPT ![s] = "ended"]
  /\ UNCHANGED <<up, sessCount, pc, num, idx, bind, hb, due, err, listen, rows, proxied, bounds>>

ServeEnds(s) ==
  /\ rem[s] = "serving" /\ Cancelled(s)
  /\ \A p \in Ports : listen[p] # s
  /\ rem' = [rem EXCEPT ![s] = "ended"]
  /\ UNCHANGED <<up, sessCount, pc, num, idx, bind, hb, due, err, listen, rows, proxied, bounds>>

(* Variant: the heartbeat touches the base row only.                       *)
HeartbeatBaseOnly(s) ==
  /\ hb[s] /\ due[s]
  /\ ExecCount({RowAt(s, 0)}, 0)
  /\ due' = [due EXCEPT ![s] = FALSE]
  /\ UNCHANGED <<up, sessCount, pc, num, idx, bind, rem, hb, err, listen, proxied, crashes>>

Heartbeat(s) ==
  /\ hb[s] /\ due[s]
  /\ ExecCount(RowsOf(s), 0)
  /\ due' = [due EXCEPT ![s] = FALSE]
  /\ UNCHANGED <<up, sessCount, pc, num, idx, bind, rem, hb, err, listen, proxied, crashes>>

(* Variant: the heartbeat does not watch the context.                      *)
HeartbeatNeverStops(s) == hb[s] /\ Cancelled(s) /\ FALSE /\ UNCHANGED vars

HeartbeatStops(s) ==
  /\ hb[s] /\ Cancelled(s)
  /\ hb' = [hb EXCEPT ![s] = FALSE]
  /\ due' = [due EXCEPT ![s] = FALSE]
  /\ UNCHANGED <<up, sessCount, pc, num, idx, bind, rem, err, listen, rows, proxied, bounds>>

(* eg.Wait.                                                                *)
WaitReturns(s) ==
  /\ pc[s] = "running"
  /\ bind[s] = "ended" /\ rem[s] = "ended" /\ ~hb[s]
  /\ pc' = [pc EXCEPT ![s] = "final"]
  /\ idx' = [idx EXCEPT ![s] = 0]
  /\ UNCHANGED <<up, sessCount, num, bind, rem, hb, due, err, listen, rows, proxied, bounds>>

FinalStatus(s) == IF err[s] = "EOF" THEN "closed" ELSE "error"

(* Variant: the last remote's row is forgotten.                            *)
FinalUpdateShort(s) ==
  /\ pc[s] = "final"
  /\ Exec(Updated(RowAt(s, idx[s]), FinalStatus(s)))
  /\ IF idx[s] < Len0(s) - 1
     THEN idx' = [idx EXCEPT ![s] = @ + 1] /\ UNCHANGED pc
     ELSE pc' = [pc EXCEPT ![s] = "done"] /\ UNCHANGED idx
  /\ UNCHANGED <<up, sessCount, num, bind, rem, hb, due, err, listen, proxied, crashes>>

FinalUpdate(s) ==
  /\ pc[s] = "final"
  /\ Exec(Updated(RowAt(s, idx[s]), FinalStatus(s)))
  /\ IF idx[s] < Len0(s)
     THEN idx' = [idx EXCEPT ![s] = @ + 1] /\ UNCHANGED pc
     ELSE pc' = [pc EXCEPT ![s] = "done"] /\ UNCHANGED idx
  /\ UNCHANGED <<up, sessCount, num, bind, rem, hb, due, err, listen, proxied, crashes>>

-----------------------------------------------------------------------------
(* A proxied connection (pipeRemote): getSSH answers while the session is  *)
(* bound; the tap counts the connection in the base and the canonical row  *)
(* when it opens and when its pipe ends.  No one waits for it.             *)

Accept(c, s) ==
  /\ cst[c] = "none" /\ bind[s] = "up"
  /\ \E p \in Ports : listen[p] = s /\ cof' = [cof EXCEPT ![c] = <<s, p>>]
  /\ rem[s] = "serving"
  /\ cst' = [cst EXCEPT ![c] = "accepted"]
  /\ UNCHANGED <<up, sessCount, pc, sess, listen, rows, bounds>>

TapRows(c) == {Base(num[cof[c][1]]), Canon(UserOf[cof[c][1]], cof[c][2])}

OnOpen(c) ==
  /\ cst[c] = "accepted"
  /\ cst' = [cst EXCEPT ![c] = "open"]
  /\ ExecCount(TapRows(c), 1)
  /\ UNCHANGED <<up, sessCount, pc, sess, listen, cof, crashes>>

OnClose(c) ==
  /\ cst[c] = "open"
  /\ cst' = [cst EXCEPT ![c] = "closed"]
  /\ ExecCount(TapRows(c), -1)
  /\ UNCHANGED <<up, sessCount, pc, sess, listen, cof, crashes>>

-----------------------------------------------------------------------------
(* The rest of the process, time, and crashes.                             *)

(* Variant: the reconciler looks for the status "active".                  *)
ReconcileActive ==
  /\ up
  /\ \E r \in OlderThan(Stale) : rows[r].status = "active"
  /\ UNCHANGED vars

(* NewServer's goroutine: every minute, rows untouched for two.            *)
Reconcile ==
  /\ up
  /\ \E r \in OlderThan(Stale) : rows[r].status = "open"
  /\ Exec(ClosedOpen(OlderThan(Stale)))
  /\ UNCHANGED <<up, sessCount, pc, sess, listen, proxied, crashes>>

WithoutClosed == [r \in {x \in DOMAIN rows : rows[x].status # "closed"} |-> rows[r]]

(* The dashboard deletes the closed rows; those in status error stay.      *)
DeleteClosedTunnels ==
  /\ up
  /\ \E r \in DOMAIN rows : rows[r].status = "closed"
  /\ rows' = WithoutClosed
  /\ UNCHANGED <<up, sessCount, pc, sess, listen, proxied, bounds>>

(* The finalizer of an unreachable listener closes it.                     *)
Collect ==
  /\ \E p \in Ports : listen[p] = Leaked /\ listen' = [listen EXCEPT ![p] = Free]
  /\ UNCHANGED <<up, sessCount, pc, sess, rows, proxied, bounds>>

Aged ==
  [x \in DOMAIN rows |->
     Row(rows[x].status, rows[x].user,
         IF rows[x].age < Stale THEN rows[x].age + 1 ELSE rows[x].age, rows[x].conns)]

Tick ==
  /\ \A s \in Sessions : pc[s] \notin Opening /\ ~due[s]
  /\ rows' = Aged
  /\ due' = hb
  /\ UNCHANGED <<up, sessCount, pc, num, idx, bind, rem, hb, err, listen, proxied, bounds>>

Crash ==
  /\ up /\ crashes < MaxCrash
  /\ up' = FALSE /\ crashes' = crashes + 1
  /\ pc' = [s \in Sessions |-> IF pc[s] = "idle" THEN "idle" ELSE "done"]
  /\ bind' = [s \in Sessions |-> "off"] /\ rem' = [s \in Sessions |-> "off"]
  /\ hb' = [s \in Sessions |-> FALSE] /\ due' = [s \in Sessions |-> FALSE]
  /\ listen' = [p \in Ports |-> Free]
  /\ cst' = [c \in Conns |-> IF cst[c] = "none" THEN "none" ELSE "closed"]
  /\ UNCHANGED <<sessCount, num, idx, err, rows, cof, fails>>

(* NewServer after a crash: no row can be open, whatever its age.          *)
Start ==
  /\ ~up /\ up' = TRUE
  /\ sessCount' = 0
  /\ Exec(ClosedOpen(OlderThan(0)))
  /\ UNCHANGED <<pc, sess, listen, proxied, crashes>>

-----------------------------------------------------------------------------
Handler(s) ==
  \/ CheckRemote(s) \/ Reply(s)
  \/ CloseRow(s) \/ CreateRow(s) \/ CreateRowFails(s) \/ UpdateRow(s)
  \/ Listen(s) \/ ListenFails(s) \/ Serve(s) \/ CloseProxy(s) \/ ServeEnds(s)
  \/ Heartbeat(s) \/ HeartbeatStops(s)
  \/ WaitReturns(s) \/ FinalUpdate(s)

Session(s) == Handshake(s) \/ Refuse(s) \/ Handler(s) \/ BindEnds(s)

Proxied(c) == (\E s \in Sessions : Accept(c, s)) \/ OnOpen(c) \/ OnClose(c)

Server == Reconcile \/ DeleteClosedTunnels \/ Collect \/ Tick \/ Crash \/ Start

Next == (\E s \in Sessions : Session(s)) \/ (\E c \in Conns : Proxied(c)) \/ Server

Spec == Init /\ [][Next]_vars

(* The goroutines of a session run, and a cancelled connection ends; the   *)
(* heartbeat, the hb-stopping branch of its select and the proxies do not  *)
(* wait for each other.  Connections, users and crashes owe nothing.       *)
Fairness ==
  /\ \A s \in Sessions :
       /\ WF_vars(CheckRemote(s) \/ Reply(s) \/ CloseRow(s) \/ CreateRow(s)
                    \/ CreateRowFails(s) \/ UpdateRow(s))
       /\ WF_vars(Listen(s) \/ ListenFails(s) \/ Serve(s))
       /\ WF_vars(CloseProxy(s) \/ ServeEnds(s))
       /\ WF_vars(Heartbeat(s)) /\ WF_vars(HeartbeatStops(s))
       /\ WF_vars(Cancelled(s) /\ BindEnds(s))
       /\ WF_vars(WaitReturns(s) \/ FinalUpdate(s))
  /\ WF_vars(Reconcile) /\ WF_vars(Tick) /\ WF_vars(Start) /\ WF_vars(Collect)

FairSpec == Spec /\ Fairness

-----------------------------------------------------------------------------
(* Properties.                                                             *)

(* Session s has opened the row r and has not yet updated it for the last  *)
(* time.                                                                   *)
Holds(s, r) == \E i \in 0..Len0(s) :
  /\ RowAt(s, i) = r
  /\ \/ pc[s] \in Opening /\ i < idx[s]
     \/ pc[s] = "running"
     \/ pc[s] = "final" /\ i >= idx[s]

(* While no statement fails, a row that says open belongs to a session     *)
(* whose handler still has to close it: whatever sessions of one user      *)
(* share the row, in whatever order they end, and across restarts that     *)
(* reuse the numbers of the base rows, nothing stays open by mistake.      *)
OpenRowHasSession ==
  up /\ fails = 0 =>
    \A r \in DOMAIN rows : rows[r].status = "open" => \E s \in Sessions : Holds(s, r)

(* While no statement fails, the base row of a session counts the proxied  *)
(* connections of this session and no other, also when it reuses the row   *)
(* of a session of an earlier process.                                     *)
BaseCountsConns ==
  fails = 0 => \A s \in Sessions :
    pc[s] = "running" /\ Base(num[s]) \in DOMAIN rows =>
      rows[Base(num[s])].conns
        = Cardinality({c \in Conns : cst[c] = "open" /\ cof[c][1] = s})

(* While no statement fails, the rows of a session with a heartbeat never  *)
(* get as old as the reconciler's limit: it only closes rows of the dead.  *)
LiveIsFresh ==
  fails = 0 => \A s \in Sessions : hb[s] =>
    \A r \in RowsOf(s) \cap DOMAIN rows : rows[r].age < Stale

(* The handler of a session whose context is done returns: none of the     *)
(* three goroutines of the errgroup keeps the others waiting.              *)
CancelEndsHandler == \A s \in Sessions : Cancelled(s) ~> pc[s] = "done"

Quiet == up /\ \A s \in Sessions : pc[s] \in {"idle", "done"}

(* When the sessions are gone, every port they listened on can be used     *)
(* again, those of a BindRemotes that failed half-way included.            *)
PortsComeBack == Quiet ~> (~Quiet \/ \A p \in Ports : listen[p] = Free)

(* When the sessions are gone their rows get closed in the end, even when  *)
(* the statement that should have done it failed: the reconciler does.     *)
RowsSettle ==
  Quiet ~> (~Quiet \/ \A r \in DOMAIN rows : rows[r].status # "open")

(* "Periodic DB heartbeat to keep tunnel status fresh while connection is  *)
(* alive": the rows of a session with a heartbeat stay open.  They do not. *)
LiveRowOpen ==
  \A s \in Sessions : hb[s] =>
    \A r \in RowsOf(s) \cap DOMAIN rows : rows[r].status = "open"
=============================================================================
