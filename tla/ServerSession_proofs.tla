------------------------ MODULE ServerSession_proofs ------------------------
(***************************************************************************)
(* Rows of handleWebsocket, for any number of sessions, users, remotes,    *)
(* proxied connections, crashes and failing statements.                    *)
(***************************************************************************)
EXTENDS ServerSession, SequenceTheorems, FiniteSetTheorems, TLAPS

(* What a handler's position says about its index, goroutines and number.  *)
Shape == \A s \in Sessions :
  /\ pc[s] \in Opening \cup {"final"} => idx[s] \in 0..Len0(s)
  /\ pc[s] = "close" => idx[s] > 0
  /\ pc[s] = "validate" => idx[s] > 0
  /\ rem[s] \in {"listening", "serving"} => pc[s] = "running"
  /\ rem[s] = "listening" => idx[s] > 0
  /\ hb[s] => pc[s] = "running"
  /\ due[s] => hb[s]
  /\ ~up => pc[s] \in {"idle", "done"}

(* The rows a session has written are young: touched when the session      *)
(* opened them, and one period old at most when its heartbeat is due.      *)
Fresh == fails = 0 => \A s \in Sessions : \A i \in 0..Len0(s) :
  RowAt(s, i) \in DOMAIN rows =>
    /\ pc[s] \in Opening /\ i < idx[s] => rows[RowAt(s, i)].age = 0
    /\ hb[s] /\ ~due[s] => rows[RowAt(s, i)].age = 0
    /\ hb[s] => rows[RowAt(s, i)].age <= 1

IInv == TypeOK /\ Shape /\ OpenRowHasSession /\ Fresh

Statuses == {"open", "closed", "error"}

-----------------------------------------------------------------------------
(* What the statements of share/database/tunnels.go leave in the table.    *)

(* What the statements on the tunnels table write is a row.                *)
LEMMA RowType ==
  /\ \A st \in Statuses, u \in Users, age \in 0..Stale, n \in Int :
       /\ Row(st, u, age, n) \in Rows
       /\ Row(st, u, age, n).status = st /\ Row(st, u, age, n).age = age
  /\ \A v \in Rows : /\ v.status \in Statuses /\ v.user \in Users
                     /\ v.age \in 0..Stale /\ v.conns \in Int
  /\ 0 \in 0..Stale
  /\ "open" \in Statuses /\ "closed" \in Statuses /\ "error" \in Statuses
BY DEF Row, Rows, Stale, Statuses

(* CreateTunnel keeps the type of the table.                               *)
LEMMA CreatedTable ==
  ASSUME IsTable(rows), NEW r \in RowIds, NEW u \in Users
  PROVE  /\ IsTable(Created(r, u))
         /\ DOMAIN Created(r, u) = DOMAIN rows \cup {r}
         /\ Created(r, u)[r].status = "open" /\ Created(r, u)[r].age = 0
         /\ \A x \in DOMAIN rows \ {r} : Created(r, u)[x] = rows[x]
<1>1. \A x \in DOMAIN rows : rows[x] \in Rows
  BY DEF IsTable
<1> QED
  BY <1>1, RowType DEF IsTable, Created

(* UpdateTunnel keeps the type of the table.                               *)
LEMMA UpdatedTable ==
  ASSUME IsTable(rows), NEW r, NEW st \in Statuses
  PROVE  /\ IsTable(Updated(r, st))
         /\ DOMAIN Updated(r, st) = DOMAIN rows
         /\ \A x \in DOMAIN rows :
              /\ x = r => Updated(r, st)[x].status = st /\ Updated(r, st)[x].age = 0
              /\ x # r => Updated(r, st)[x] = rows[x]
<1>1. \A x \in DOMAIN rows : rows[x] \in Rows
  BY DEF IsTable
<1>2. ASSUME NEW x \in DOMAIN rows
      PROVE  /\ Updated(r, st)[x] \in Rows
             /\ x = r => Updated(r, st)[x].status = st /\ Updated(r, st)[x].age = 0
             /\ x # r => Updated(r, st)[x] = rows[x]
  BY <1>1, RowType DEF Updated
<1>3. DOMAIN Updated(r, st) = DOMAIN rows
  BY DEF Updated
<1> QED
  BY <1>1, <1>2, <1>3, RowType DEF IsTable

(* AddTunnelConnections keeps the type of the table.                       *)
LEMMA CountedTable ==
  ASSUME IsTable(rows), NEW R, NEW d \in Int
  PROVE  /\ IsTable(Counted(R, d))
         /\ DOMAIN Counted(R, d) = DOMAIN rows
         /\ \A x \in DOMAIN rows :
              /\ Counted(R, d)[x].status = rows[x].status
              /\ x \in R => Counted(R, d)[x].age = 0
              /\ x \notin R => Counted(R, d)[x] = rows[x]
<1>1. \A x \in DOMAIN rows : rows[x] \in Rows
  BY DEF IsTable
<1>2. ASSUME NEW x \in DOMAIN rows
      PROVE  /\ Counted(R, d)[x] \in Rows
             /\ Counted(R, d)[x].status = rows[x].status
             /\ x \in R => Counted(R, d)[x].age = 0
             /\ x \notin R => Counted(R, d)[x] = rows[x]
  BY <1>1, RowType DEF Counted
<1>3. DOMAIN Counted(R, d) = DOMAIN rows
  BY DEF Counted
<1> QED
  BY <1>1, <1>2, <1>3, RowType DEF IsTable

(* The statement that closes open rows keeps the type of the table.        *)
LEMMA ClosedOpenTable ==
  ASSUME IsTable(rows), NEW R
  PROVE  /\ IsTable(ClosedOpen(R))
         /\ DOMAIN ClosedOpen(R) = DOMAIN rows
         /\ \A x \in DOMAIN rows :
              /\ x \in R => ClosedOpen(R)[x].status # "open"
              /\ ClosedOpen(R)[x].age = 0 \/ ClosedOpen(R)[x] = rows[x]
              /\ ClosedOpen(R)[x].status = "open" => rows[x].status = "open"
<1>1. \A x \in DOMAIN rows : rows[x] \in Rows
  BY DEF IsTable
<1>2. ASSUME NEW x \in DOMAIN rows
      PROVE  /\ ClosedOpen(R)[x] \in Rows
             /\ x \in R => ClosedOpen(R)[x].status # "open"
             /\ ClosedOpen(R)[x].age = 0 \/ ClosedOpen(R)[x] = rows[x]
             /\ ClosedOpen(R)[x].status = "open" => rows[x].status = "open"
  BY <1>1, RowType DEF ClosedOpen
<1>3. DOMAIN ClosedOpen(R) = DOMAIN rows
  BY DEF ClosedOpen
<1> QED
  BY <1>1, <1>2, <1>3, RowType DEF IsTable

(* Deleting closed rows keeps the type of the table.                       *)
LEMMA WithoutClosedTable ==
  ASSUME IsTable(rows)
  PROVE  /\ IsTable(WithoutClosed)
         /\ DOMAIN WithoutClosed \subseteq DOMAIN rows
         /\ \A x \in DOMAIN WithoutClosed : WithoutClosed[x] = rows[x]
BY DEF IsTable, WithoutClosed

(* Time keeps the type of the table.                                       *)
LEMMA AgedTable ==
  ASSUME IsTable(rows)
  PROVE  /\ IsTable(Aged)
         /\ DOMAIN Aged = DOMAIN rows
         /\ \A x \in DOMAIN rows :
              /\ Aged[x].status = rows[x].status
              /\ rows[x].age \in 0..Stale
              /\ Aged[x].age = IF rows[x].age < Stale THEN rows[x].age + 1 ELSE rows[x].age
<1>1. \A x \in DOMAIN rows : rows[x] \in Rows
  BY DEF IsTable
<1>2. ASSUME NEW x \in DOMAIN rows
      PROVE  /\ Aged[x] \in Rows
             /\ Aged[x].status = rows[x].status
             /\ Aged[x].age = IF rows[x].age < Stale THEN rows[x].age + 1 ELSE rows[x].age
  <2>1. rows[x] \in Rows /\ rows[x].age \in 0..Stale
    BY <1>1, RowType
  <2>2. (IF rows[x].age < Stale THEN rows[x].age + 1 ELSE rows[x].age) \in 0..Stale
    BY <2>1 DEF Stale
  <2> QED
    BY <2>1, <2>2, RowType DEF Aged
<1>3. DOMAIN Aged = DOMAIN rows
  BY DEF Aged
<1> QED
  BY <1>1, <1>2, <1>3, RowType DEF IsTable

(* A session's row ids are ids of the table.                               *)
LEMMA RowAtType ==
  ASSUME SessionAssumption, TypeOK, NEW s \in Sessions, NEW i \in 0..Len0(s)
  PROVE  RowAt(s, i) \in RowIds
<1>1. RemotesOf[s] \in Seq(Ports) /\ UserOf[s] \in Users /\ num[s] \in Nat
  BY DEF SessionAssumption, TypeOK
<1>2. CASE i = 0
  BY <1>1, <1>2 DEF RowAt, RowIds, Base
<1>3. CASE i # 0
  <2>1. i \in 1..Len(RemotesOf[s])
    BY <1>1, <1>3, LenProperties DEF Len0
  <2>2. RemotesOf[s][i] \in Ports
    BY <1>1, <2>1, ElementOfSeq
  <2> QED
    BY <1>1, <1>3, <2>2 DEF RowAt, RowIds, Canon
<1> QED
  BY <1>2, <1>3

(* The number of a session's remotes is a natural number.                  *)
LEMMA Len0Type ==
  ASSUME SessionAssumption, NEW s \in Sessions
  PROVE  Len0(s) \in Nat
BY LenProperties DEF SessionAssumption, Len0

-----------------------------------------------------------------------------
(* Type correctness.                                                       *)

(* A statement that may fail keeps the type of the table.                  *)
LEMMA ExecTable ==
  ASSUME TypeOK, NEW t, IsTable(t), Exec(t)
  PROVE  IsTable(rows') /\ fails' \in 0..MaxFail
<1>1. fails \in 0..MaxFail /\ IsTable(rows)
  BY DEF TypeOK
<1> QED
  BY <1>1, SessionAssumption DEF SessionAssumption, Exec

(* So do the statements of a heartbeat.                                    *)
LEMMA ExecCountTable ==
  ASSUME TypeOK, NEW R, NEW d \in Int, ExecCount(R, d)
  PROVE  IsTable(rows') /\ fails' \in 0..MaxFail
<1>1. fails \in 0..MaxFail /\ IsTable(rows)
  BY DEF TypeOK
<1>2. fails' \in 0..MaxFail
  BY <1>1, SessionAssumption DEF SessionAssumption, ExecCount
<1>3. IsTable(rows')
  BY <1>1, CountedTable DEF ExecCount
<1> QED
  BY <1>2, <1>3

(* Every step keeps the types.                                              *)
LEMMA TypeStep ==
  ASSUME TypeOK, Shape, [Next]_vars
  PROVE  TypeOK'
<1>1. CASE UNCHANGED vars
  BY <1>1 DEF vars, sess, proxied, bounds, TypeOK
<1>2. ASSUME NEW s \in Sessions, Handshake(s)
      PROVE  TypeOK'
  BY <1>2 DEF Handshake, TypeOK, sess, proxied, bounds, FirstError, PCs, Opening
<1>3. ASSUME NEW s \in Sessions, Refuse(s)
      PROVE  TypeOK'
  BY <1>3 DEF Refuse, TypeOK, sess, proxied, bounds, FirstError, PCs, Opening
<1>4. ASSUME NEW s \in Sessions, CheckRemote(s)
      PROVE  TypeOK'
  BY <1>4 DEF CheckRemote, TypeOK, sess, proxied, bounds, FirstError, PCs, Opening
<1>5. ASSUME NEW s \in Sessions, Reply(s)
      PROVE  TypeOK'
  BY <1>5 DEF Reply, TypeOK, sess, proxied, bounds, FirstError, PCs, Opening
<1>6. ASSUME NEW s \in Sessions, CloseRow(s)
      PROVE  TypeOK'
  <2>2. idx[s] \in 0..Len0(s) /\ RowAt(s, idx[s]) \in RowIds
    BY <1>6, RowAtType, SessionAssumption DEF CloseRow, Shape, Opening
  <2>3. IsTable(rows) /\ idx[s] + 1 \in Nat
    BY <2>2, Len0Type, SessionAssumption DEF TypeOK
  <2>1. IsTable(rows') /\ fails' \in 0..MaxFail
    BY <1>6, <2>3, ClosedOpenTable, ExecTable DEF CloseRow
  <2> QED
    BY <1>6, <2>1 DEF CloseRow, TypeOK, sess, proxied, bounds, FirstError, PCs, Opening
<1>7. ASSUME NEW s \in Sessions, CreateRow(s)
      PROVE  TypeOK'
  <2>2. idx[s] \in 0..Len0(s) /\ RowAt(s, idx[s]) \in RowIds
    BY <1>7, RowAtType, SessionAssumption DEF CreateRow, Shape, Opening
  <2>3. IsTable(rows) /\ idx[s] + 1 \in Nat
    BY <2>2, Len0Type, SessionAssumption DEF TypeOK
  <2>1. IsTable(rows') /\ fails' \in 0..MaxFail
    BY <1>7, <2>2, <2>3, CreatedTable, SessionAssumption DEF CreateRow, TypeOK, SessionAssumption, bounds
  <2>4. idx' \in [Sessions -> Nat]
    BY <1>7, <2>3 DEF CreateRow, RowDone, TypeOK
  <2> QED
    BY <1>7, <2>1, <2>4 DEF CreateRow, RowDone, TypeOK, proxied, bounds, PCs, Opening
<1>8. ASSUME NEW s \in Sessions, CreateRowFails(s)
      PROVE  TypeOK'
  <2>1. IsTable(rows') /\ fails' \in 0..MaxFail
    BY <1>8, SessionAssumption DEF CreateRowFails, TypeOK, SessionAssumption
  <2> QED
    BY <1>8, <2>1 DEF CreateRowFails, TypeOK, sess, proxied, PCs, Opening
<1>9. ASSUME NEW s \in Sessions, UpdateRow(s)
      PROVE  TypeOK'
  <2>2. idx[s] \in 0..Len0(s) /\ RowAt(s, idx[s]) \in RowIds
    BY <1>9, RowAtType, SessionAssumption DEF UpdateRow, Shape, Opening
  <2>3. IsTable(rows) /\ idx[s] + 1 \in Nat
    BY <2>2, Len0Type, SessionAssumption DEF TypeOK
  <2>1. IsTable(rows') /\ fails' \in 0..MaxFail
    BY <1>9, <2>3, UpdatedTable, ExecTable, RowType DEF UpdateRow
  <2>4. idx' \in [Sessions -> Nat]
    BY <1>9, <2>3 DEF UpdateRow, RowDone, TypeOK
  <2> QED
    BY <1>9, <2>1, <2>4 DEF UpdateRow, RowDone, TypeOK, proxied, PCs, Opening
<1>10. ASSUME NEW s \in Sessions, Listen(s)
      PROVE  TypeOK'
  <2>1. idx' \in [Sessions -> Nat]
    BY <1>10 DEF Listen, TypeOK
  <2>2. listen' \in [Ports -> Sessions \cup {Free, Leaked}]
    BY <1>10 DEF Listen, TypeOK
  <2> QED
    BY <1>10, <2>1, <2>2 DEF Listen, TypeOK, proxied, bounds
<1>11. ASSUME NEW s \in Sessions, ListenFails(s)
      PROVE  TypeOK'
  BY <1>11 DEF ListenFails, TypeOK, sess, proxied, bounds, FirstError, PCs, Opening
<1>12. ASSUME NEW s \in Sessions, Serve(s)
      PROVE  TypeOK'
  BY <1>12 DEF Serve, TypeOK, sess, proxied, bounds, FirstError, PCs, Opening
<1>13. ASSUME NEW s \in Sessions, CloseProxy(s)
      PROVE  TypeOK'
  BY <1>13 DEF CloseProxy, TypeOK, sess, proxied, bounds, FirstError, PCs, Opening
<1>14. ASSUME NEW s \in Sessions, ServeEnds(s)
      PROVE  TypeOK'
  BY <1>14 DEF ServeEnds, TypeOK, sess, proxied, bounds, FirstError, PCs, Opening
<1>15. ASSUME NEW s \in Sessions, Heartbeat(s)
      PROVE  TypeOK'
  <2>1. IsTable(rows') /\ fails' \in 0..MaxFail
    BY <1>15, ExecCountTable DEF Heartbeat
  <2> QED
    BY <1>15, <2>1 DEF Heartbeat, TypeOK, proxied
<1>16. ASSUME NEW s \in Sessions, HeartbeatStops(s)
      PROVE  TypeOK'
  BY <1>16 DEF HeartbeatStops, TypeOK, sess, proxied, bounds, FirstError, PCs, Opening
<1>17. ASSUME NEW s \in Sessions, WaitReturns(s)
      PROVE  TypeOK'
  BY <1>17 DEF WaitReturns, TypeOK, sess, proxied, bounds, FirstError, PCs, Opening
<1>18. ASSUME NEW s \in Sessions, FinalUpdate(s)
      PROVE  TypeOK'
  <2>2. idx[s] \in 0..Len0(s) /\ RowAt(s, idx[s]) \in RowIds
    BY <1>18, RowAtType, SessionAssumption DEF FinalUpdate, Shape, Opening
  <2>3. IsTable(rows) /\ idx[s] + 1 \in Nat
    BY <2>2, Len0Type, SessionAssumption DEF TypeOK
  <2>4. FinalStatus(s) \in Statuses
    BY RowType DEF FinalStatus
  <2>1. IsTable(rows') /\ fails' \in 0..MaxFail
    BY <1>18, <2>3, <2>4, UpdatedTable, ExecTable DEF FinalUpdate
  <2>5. idx' \in [Sessions -> Nat]
    BY <1>18, <2>3 DEF FinalUpdate, TypeOK
  <2> QED
    BY <1>18, <2>1, <2>5 DEF FinalUpdate, TypeOK, proxied, PCs
<1>19. ASSUME NEW s \in Sessions, BindEnds(s)
      PROVE  TypeOK'
  BY <1>19 DEF BindEnds, TypeOK, sess, proxied, bounds, FirstError, PCs, Opening
<1>20. ASSUME NEW c \in Conns, NEW s \in Sessions, Accept(c, s)
      PROVE  TypeOK'
  BY <1>20 DEF Accept, TypeOK, sess, proxied, bounds, FirstError, PCs, Opening
<1>21. ASSUME NEW c \in Conns, OnOpen(c)
      PROVE  TypeOK'
  <2>1. IsTable(rows') /\ fails' \in 0..MaxFail
    BY <1>21, ExecCountTable DEF OnOpen
  <2> QED
    BY <1>21, <2>1 DEF OnOpen, TypeOK, sess
<1>22. ASSUME NEW c \in Conns, OnClose(c)
      PROVE  TypeOK'
  <2>1. IsTable(rows') /\ fails' \in 0..MaxFail
    BY <1>22, ExecCountTable DEF OnClose
  <2> QED
    BY <1>22, <2>1 DEF OnClose, TypeOK, sess
<1>23. CASE Reconcile
  <2>1. IsTable(rows') /\ fails' \in 0..MaxFail
    BY <1>23, ClosedOpenTable, ExecTable DEF Reconcile, TypeOK
  <2> QED
    BY <1>23, <2>1 DEF Reconcile, TypeOK, sess, proxied
<1>24. CASE DeleteClosedTunnels
  <2>1. IsTable(rows') /\ fails' \in 0..MaxFail
    BY <1>24, WithoutClosedTable DEF DeleteClosedTunnels, TypeOK, bounds
  <2> QED
    BY <1>24, <2>1 DEF DeleteClosedTunnels, TypeOK, sess, proxied, bounds
<1>25. CASE Collect
  BY <1>25 DEF Collect, TypeOK, sess, proxied, bounds, FirstError, PCs, Opening
<1>26. CASE Tick
  <2>1. IsTable(rows') /\ fails' \in 0..MaxFail
    BY <1>26, AgedTable DEF Tick, TypeOK, bounds
  <2> QED
    BY <1>26, <2>1 DEF Tick, TypeOK, proxied, bounds
<1>27. CASE Crash
  <2>1. crashes' \in 0..MaxCrash
    BY <1>27, SessionAssumption DEF Crash, TypeOK, SessionAssumption
  <2>2. pc' \in [Sessions -> PCs] /\ cst' \in [Conns -> {"none", "accepted", "open", "closed"}]
    BY <1>27 DEF Crash, TypeOK, PCs
  <2> QED
    BY <1>27, <2>1, <2>2 DEF Crash, TypeOK
<1>28. CASE Start
  <2>1. IsTable(rows') /\ fails' \in 0..MaxFail
    BY <1>28, ClosedOpenTable, ExecTable DEF Start, TypeOK
  <2> QED
    BY <1>28, <2>1 DEF Start, TypeOK, sess, proxied
<1> QED
  BY <1>1, <1>2, <1>3, <1>4, <1>5, <1>6, <1>7, <1>8, <1>9, <1>10, <1>11, <1>12, <1>13, <1>14, <1>15, <1>16, <1>17, <1>18, <1>19, <1>20, <1>21, <1>22, <1>23, <1>24, <1>25, <1>26, <1>27, <1>28
  DEF Next, Session, Handler, Proxied, Server

-----------------------------------------------------------------------------
(* Where a handler is and what its goroutines do.                          *)

(* The variables of the handlers, without the rest of TypeOK.              *)
LEMMA HandlerTypes ==
  ASSUME TypeOK
  PROVE  /\ pc \in [Sessions -> PCs] /\ idx \in [Sessions -> Nat]
         /\ num \in [Sessions -> Nat]
         /\ hb \in [Sessions -> BOOLEAN] /\ due \in [Sessions -> BOOLEAN]
         /\ rem \in [Sessions -> {"off", "listening", "serving", "ended"}]
         /\ fails \in Nat
BY SessionAssumption DEF TypeOK, SessionAssumption

(* Every step keeps the shape of the handlers.                              *)
LEMMA ShapeStep ==
  ASSUME TypeOK, Shape, [Next]_vars
  PROVE  Shape'
<1>0. /\ pc \in [Sessions -> PCs] /\ idx \in [Sessions -> Nat]
      /\ hb \in [Sessions -> BOOLEAN] /\ due \in [Sessions -> BOOLEAN]
      /\ rem \in [Sessions -> {"off", "listening", "serving", "ended"}]
      /\ \A s \in Sessions : Len0(s) \in Nat
  BY HandlerTypes, Len0Type, SessionAssumption
<1>1. CASE UNCHANGED vars
  BY <1>1 DEF vars, sess, proxied, bounds, Shape
<1>2. ASSUME NEW s \in Sessions, Handshake(s)
      PROVE  Shape'
  BY <1>2, <1>0 DEF Handshake, Shape, sess, proxied, bounds, PCs, Opening, RowDone, FirstError
<1>3. ASSUME NEW s \in Sessions, Refuse(s)
      PROVE  Shape'
  BY <1>3, <1>0 DEF Refuse, Shape, sess, proxied, bounds, PCs, Opening, RowDone, FirstError
<1>4. ASSUME NEW s \in Sessions, CheckRemote(s)
      PROVE  Shape'
  BY <1>4, <1>0 DEF CheckRemote, Shape, sess, proxied, bounds, PCs, Opening, RowDone, FirstError
<1>5. ASSUME NEW s \in Sessions, Reply(s)
      PROVE  Shape'
  BY <1>5, <1>0 DEF Reply, Shape, sess, proxied, bounds, PCs, Opening, RowDone, FirstError
<1>6. ASSUME NEW s \in Sessions, CloseRow(s)
      PROVE  Shape'
  BY <1>6, <1>0 DEF CloseRow, Shape, sess, proxied, bounds, PCs, Opening, RowDone, FirstError
<1>7. ASSUME NEW s \in Sessions, CreateRow(s)
      PROVE  Shape'
  BY <1>7, <1>0 DEF CreateRow, Shape, sess, proxied, bounds, PCs, Opening, RowDone, FirstError
<1>8. ASSUME NEW s \in Sessions, CreateRowFails(s)
      PROVE  Shape'
  BY <1>8, <1>0 DEF CreateRowFails, Shape, sess, proxied, bounds, PCs, Opening, RowDone, FirstError
<1>9. ASSUME NEW s \in Sessions, UpdateRow(s)
      PROVE  Shape'
  BY <1>9, <1>0 DEF UpdateRow, Shape, sess, proxied, bounds, PCs, Opening, RowDone, FirstError
<1>10. ASSUME NEW s \in Sessions, Listen(s)
      PROVE  Shape'
  BY <1>10, <1>0 DEF Listen, Shape, sess, proxied, bounds, PCs, Opening, RowDone, FirstError
<1>11. ASSUME NEW s \in Sessions, ListenFails(s)
      PROVE  Shape'
  BY <1>11, <1>0 DEF ListenFails, Shape, sess, proxied, bounds, PCs, Opening, RowDone, FirstError
<1>12. ASSUME NEW s \in Sessions, Serve(s)
      PROVE  Shape'
  BY <1>12, <1>0 DEF Serve, Shape, sess, proxied, bounds, PCs, Opening, RowDone, FirstError
<1>13. ASSUME NEW s \in Sessions, CloseProxy(s)
      PROVE  Shape'
  BY <1>13, <1>0 DEF CloseProxy, Shape, sess, proxied, bounds, PCs, Opening, RowDone, FirstError
<1>14. ASSUME NEW s \in Sessions, ServeEnds(s)
      PROVE  Shape'
  BY <1>14, <1>0 DEF ServeEnds, Shape, sess, proxied, bounds, PCs, Opening, RowDone, FirstError
<1>15. ASSUME NEW s \in Sessions, Heartbeat(s)
      PROVE  Shape'
  BY <1>15, <1>0 DEF Heartbeat, Shape, sess, proxied, bounds, PCs, Opening, RowDone, FirstError
<1>16. ASSUME NEW s \in Sessions, HeartbeatStops(s)
      PROVE  Shape'
  BY <1>16, <1>0 DEF HeartbeatStops, Shape, sess, proxied, bounds, PCs, Opening, RowDone, FirstError
<1>17. ASSUME NEW s \in Sessions, WaitReturns(s)
      PROVE  Shape'
  BY <1>17, <1>0 DEF WaitReturns, Shape, sess, proxied, bounds, PCs, Opening, RowDone, FirstError
<1>18. ASSUME NEW s \in Sessions, FinalUpdate(s)
      PROVE  Shape'
  BY <1>18, <1>0 DEF FinalUpdate, Shape, sess, proxied, bounds, PCs, Opening, RowDone, FirstError
<1>19. ASSUME NEW s \in Sessions, BindEnds(s)
      PROVE  Shape'
  BY <1>19, <1>0 DEF BindEnds, Shape, sess, proxied, bounds, PCs, Opening, RowDone, FirstError
<1>20. ASSUME NEW c \in Conns, NEW s \in Sessions, Accept(c, s)
      PROVE  Shape'
  BY <1>20, <1>0 DEF Accept, Shape, sess, proxied, bounds, PCs, Opening, RowDone, FirstError
<1>21. ASSUME NEW c \in Conns, OnOpen(c)
      PROVE  Shape'
  BY <1>21, <1>0 DEF OnOpen, Shape, sess, proxied, bounds, PCs, Opening, RowDone, FirstError
<1>22. ASSUME NEW c \in Conns, OnClose(c)
      PROVE  Shape'
  BY <1>22, <1>0 DEF OnClose, Shape, sess, proxied, bounds, PCs, Opening, RowDone, FirstError
<1>23. CASE Reconcile
  BY <1>23, <1>0 DEF Reconcile, Shape, sess, proxied, bounds, PCs, Opening, RowDone, FirstError
<1>24. CASE DeleteClosedTunnels
  BY <1>24, <1>0 DEF DeleteClosedTunnels, Shape, sess, proxied, bounds, PCs, Opening, RowDone, FirstError
<1>25. CASE Collect
  BY <1>25, <1>0 DEF Collect, Shape, sess, proxied, bounds, PCs, Opening, RowDone, FirstError
<1>26. CASE Tick
  BY <1>26, <1>0 DEF Tick, Shape, sess, proxied, bounds, PCs, Opening, RowDone, FirstError
<1>27. CASE Crash
  BY <1>27, <1>0 DEF Crash, Shape, sess, proxied, bounds, PCs, Opening, RowDone, FirstError
<1>28. CASE Start
  BY <1>28, <1>0 DEF Start, Shape, sess, proxied, bounds, PCs, Opening, RowDone, FirstError
<1> QED
  BY <1>1, <1>2, <1>3, <1>4, <1>5, <1>6, <1>7, <1>8, <1>9, <1>10, <1>11, <1>12, <1>13, <1>14, <1>15, <1>16, <1>17, <1>18, <1>19, <1>20, <1>21, <1>22, <1>23, <1>24, <1>25, <1>26, <1>27, <1>28
  DEF Next, Session, Handler, Proxied, Server

-----------------------------------------------------------------------------
(* Open rows belong to a session.                                          *)

(* A session whose position does not change holds the same rows.           *)
LEMMA SameHolds ==
  ASSUME NEW t, NEW r, Holds(t, r),
         pc'[t] = pc[t], idx'[t] = idx[t], num'[t] = num[t]
  PROVE  Holds(t, r)'
BY DEF Holds, RowAt, Base

(* A step that opens no row and lets go of none keeps the property.        *)
LEMMA OpenKept ==
  ASSUME OpenRowHasSession,
         up' /\ fails' = 0 => up /\ fails = 0,
         up' /\ fails' = 0 =>
           \A r \in DOMAIN rows' : rows'[r].status = "open" =>
             r \in DOMAIN rows /\ rows[r].status = "open",
         \A t \in Sessions : \A r : Holds(t, r) => Holds(t, r)'
  PROVE  OpenRowHasSession'
BY DEF OpenRowHasSession

(* Every step keeps an owner for every open row.                            *)
LEMMA OpenStep ==
  ASSUME TypeOK, Shape, OpenRowHasSession, [Next]_vars
  PROVE  OpenRowHasSession'
<1> USE SessionAssumption
<1>0. /\ pc \in [Sessions -> PCs] /\ idx \in [Sessions -> Nat]
      /\ num \in [Sessions -> Nat] /\ fails \in Nat /\ IsTable(rows)
      /\ \A s \in Sessions : Len0(s) \in Nat
  BY HandlerTypes, Len0Type DEF TypeOK
<1>1. CASE UNCHANGED vars
  <2>1. up' = up /\ rows' = rows /\ fails' = fails
        /\ \A t \in Sessions : pc'[t] = pc[t] /\ idx'[t] = idx[t] /\ num'[t] = num[t]
    BY <1>1 DEF vars, sess, bounds
  <2> QED
    BY <2>1, SameHolds, OpenKept
<1>2. ASSUME NEW s \in Sessions, Handshake(s)
      PROVE  OpenRowHasSession'
  <2>1. up' = up /\ rows' = rows /\ fails' = fails
    BY <1>2 DEF Handshake, bounds
  <2>2. \A t \in Sessions \ {s} : pc'[t] = pc[t] /\ idx'[t] = idx[t] /\ num'[t] = num[t]
    BY <1>2, <1>0 DEF Handshake, sess
  <2>3. \A r : ~Holds(s, r)
    BY <1>2 DEF Handshake, Holds, Opening
  <2> QED
    BY <2>1, <2>2, <2>3, SameHolds, OpenKept
<1>3. ASSUME NEW s \in Sessions, Refuse(s)
      PROVE  OpenRowHasSession'
  <2>1. up' = up /\ rows' = rows /\ fails' = fails
    BY <1>3 DEF Refuse, bounds
  <2>2. \A t \in Sessions \ {s} : pc'[t] = pc[t] /\ idx'[t] = idx[t] /\ num'[t] = num[t]
    BY <1>3, <1>0 DEF Refuse, sess
  <2>3. \A r : ~Holds(s, r)
    BY <1>3 DEF Refuse, Holds, Opening
  <2> QED
    BY <2>1, <2>2, <2>3, SameHolds, OpenKept
<1>4. ASSUME NEW s \in Sessions, CheckRemote(s)
      PROVE  OpenRowHasSession'
  <2>1. up' = up /\ rows' = rows /\ fails' = fails
    BY <1>4 DEF CheckRemote, bounds
  <2>2. \A t \in Sessions \ {s} : pc'[t] = pc[t] /\ idx'[t] = idx[t] /\ num'[t] = num[t]
    BY <1>4, <1>0 DEF CheckRemote, sess
  <2>3. \A r : ~Holds(s, r)
    BY <1>4 DEF CheckRemote, Holds, Opening
  <2> QED
    BY <2>1, <2>2, <2>3, SameHolds, OpenKept
<1>5. ASSUME NEW s \in Sessions, Reply(s)
      PROVE  OpenRowHasSession'
  <2>1. up' = up /\ rows' = rows /\ fails' = fails
    BY <1>5 DEF Reply, bounds
  <2>2. \A t \in Sessions \ {s} : pc'[t] = pc[t] /\ idx'[t] = idx[t] /\ num'[t] = num[t]
    BY <1>5, <1>0 DEF Reply, RowDone, sess
  <2>3. \A r : ~Holds(s, r)
    BY <1>5 DEF Reply, Holds, Opening
  <2> QED
    BY <2>1, <2>2, <2>3, SameHolds, OpenKept
<1>6. ASSUME NEW s \in Sessions, CloseRow(s)
      PROVE  OpenRowHasSession'
  <2>1. up' = up /\ \A r \in DOMAIN rows' : rows'[r].status = "open" =>
                       r \in DOMAIN rows /\ rows[r].status = "open"
    BY <1>6, <1>0, ClosedOpenTable DEF CloseRow, Exec
  <2>5. fails' = 0 => fails = 0
    BY <1>6, <1>0 DEF CloseRow, Exec
  <2>2. \A t \in Sessions \ {s} : pc'[t] = pc[t] /\ idx'[t] = idx[t] /\ num'[t] = num[t]
    BY <1>6, <1>0 DEF CloseRow, RowDone, sess
  <2>3. num'[s] = num[s] /\ pc[s] \in Opening /\ pc'[s] \in Opening /\ idx'[s] = idx[s]
    BY <1>6, <1>0 DEF CloseRow, Opening, sess
  <2>4. \A r : Holds(s, r) => Holds(s, r)'
    BY <2>3 DEF Holds, RowAt, Base, Opening
  <2> QED
    BY <2>1, <2>2, <2>4, <2>5, SameHolds, OpenKept
<1>7. ASSUME NEW s \in Sessions, CreateRow(s)
      PROVE  OpenRowHasSession'
  <2>1. up' = up /\ \A r \in DOMAIN rows' : rows'[r].status = "open" =>
          \/ r \in DOMAIN rows /\ rows[r].status = "open"
          \/ r = RowAt(s, idx[s])
    <3>1. RowAt(s, idx[s]) \in RowIds /\ UserOf[s] \in Users
      BY <1>7, RowAtType DEF CreateRow, Shape, Opening, SessionAssumption
    <3>2. /\ rows' = Created(RowAt(s, idx[s]), UserOf[s]) /\ up' = up
          /\ RowAt(s, idx[s]) \notin DOMAIN rows
      BY <1>7 DEF CreateRow
    <3>3. /\ DOMAIN rows' = DOMAIN rows \cup {RowAt(s, idx[s])}
          /\ \A x \in DOMAIN rows : rows'[x] = rows[x]
      BY <1>0, <3>1, <3>2, CreatedTable
    <3> QED
      BY <3>2, <3>3
  <2>7. fails' = fails
    BY <1>7 DEF CreateRow, bounds
  <2>2. \A t \in Sessions \ {s} : pc'[t] = pc[t] /\ idx'[t] = idx[t] /\ num'[t] = num[t]
    BY <1>7, <1>0 DEF CreateRow, RowDone, sess
  <2>3. num'[s] = num[s] /\ pc[s] \in Opening /\ idx[s] \in 0..Len0(s)
    BY <1>7 DEF CreateRow, Opening, Shape
  <2>4. \/ pc'[s] \in Opening /\ idx'[s] = idx[s] + 1
        \/ pc'[s] = "running"
    BY <1>7, <1>0 DEF CreateRow, RowDone, Opening
  <2>5. \A r : Holds(s, r) => Holds(s, r)'
    BY <1>0, <2>3, <2>4 DEF Holds, RowAt, Base, Opening
  <2>6. ASSUME NEW r, r = RowAt(s, idx[s]) PROVE Holds(s, r)'
    <3>1. \A i : RowAt(s, i)' = RowAt(s, i)
      BY <2>3 DEF RowAt, Base
    <3> QED
      BY <1>0, <2>3, <2>4, <2>6, <3>1 DEF Holds
  <2> QED
    BY <2>1, <2>2, <2>5, <2>6, <2>7, SameHolds DEF OpenRowHasSession
<1>8. ASSUME NEW s \in Sessions, CreateRowFails(s)
      PROVE  OpenRowHasSession'
  <2>1. up' = up /\ rows' = rows
    BY <1>8 DEF CreateRowFails
  <2>5. fails' = 0 => fails = 0
    BY <1>8, <1>0 DEF CreateRowFails
  <2>2. \A t \in Sessions \ {s} : pc'[t] = pc[t] /\ idx'[t] = idx[t] /\ num'[t] = num[t]
    BY <1>8, <1>0 DEF CreateRowFails, RowDone, sess
  <2>3. num'[s] = num[s] /\ pc[s] \in Opening /\ pc'[s] \in Opening /\ idx'[s] = idx[s]
    BY <1>8, <1>0 DEF CreateRowFails, Opening, sess
  <2>4. \A r : Holds(s, r) => Holds(s, r)'
    BY <2>3 DEF Holds, RowAt, Base, Opening
  <2> QED
    BY <2>1, <2>2, <2>4, <2>5, SameHolds, OpenKept
<1>9. ASSUME NEW s \in Sessions, UpdateRow(s)
      PROVE  OpenRowHasSession'
  <2>1. up' = up /\ \A r \in DOMAIN rows' : rows'[r].status = "open" =>
          \/ r \in DOMAIN rows /\ rows[r].status = "open"
          \/ r = RowAt(s, idx[s])
    BY <1>9, <1>0, UpdatedTable, RowType DEF UpdateRow, Exec
  <2>7. fails' = 0 => fails = 0
    BY <1>9, <1>0 DEF UpdateRow, Exec
  <2>2. \A t \in Sessions \ {s} : pc'[t] = pc[t] /\ idx'[t] = idx[t] /\ num'[t] = num[t]
    BY <1>9, <1>0 DEF UpdateRow, RowDone, sess
  <2>3. num'[s] = num[s] /\ pc[s] \in Opening /\ idx[s] \in 0..Len0(s)
    BY <1>9 DEF UpdateRow, Opening, Shape
  <2>4. \/ pc'[s] \in Opening /\ idx'[s] = idx[s] + 1
        \/ pc'[s] = "running"
    BY <1>9, <1>0 DEF UpdateRow, RowDone, Opening
  <2>5. \A r : Holds(s, r) => Holds(s, r)'
    BY <1>0, <2>3, <2>4 DEF Holds, RowAt, Base, Opening
  <2>6. ASSUME NEW r, r = RowAt(s, idx[s]) PROVE Holds(s, r)'
    <3>1. \A i : RowAt(s, i)' = RowAt(s, i)
      BY <2>3 DEF RowAt, Base
    <3> QED
      BY <1>0, <2>3, <2>4, <2>6, <3>1 DEF Holds
  <2> QED
    BY <2>1, <2>2, <2>5, <2>6, <2>7, SameHolds DEF OpenRowHasSession
<1>10. ASSUME NEW s \in Sessions, Listen(s)
      PROVE  OpenRowHasSession'
  <2>1. up' = up /\ rows' = rows /\ fails' = fails
    BY <1>10 DEF Listen, bounds
  <2>2. \A t \in Sessions \ {s} : pc'[t] = pc[t] /\ idx'[t] = idx[t] /\ num'[t] = num[t]
    BY <1>10, <1>0 DEF Listen, RowDone, sess
  <2>3. pc[s] = "running" /\ pc'[s] = "running" /\ num'[s] = num[s]
    BY <1>10 DEF Listen, Shape
  <2>4. \A r : Holds(s, r) => Holds(s, r)'
    BY <2>3 DEF Holds, RowAt, Base
  <2> QED
    BY <2>1, <2>2, <2>4, SameHolds, OpenKept
<1>11. ASSUME NEW s \in Sessions, ListenFails(s)
      PROVE  OpenRowHasSession'
  <2>1. up' = up /\ rows' = rows /\ fails' = fails
    BY <1>11 DEF ListenFails, bounds
  <2>2. \A t \in Sessions : pc'[t] = pc[t] /\ idx'[t] = idx[t] /\ num'[t] = num[t]
    BY <1>11 DEF ListenFails, sess
  <2> QED
    BY <2>1, <2>2, SameHolds, OpenKept
<1>12. ASSUME NEW s \in Sessions, Serve(s)
      PROVE  OpenRowHasSession'
  <2>1. up' = up /\ rows' = rows /\ fails' = fails
    BY <1>12 DEF Serve, bounds
  <2>2. \A t \in Sessions : pc'[t] = pc[t] /\ idx'[t] = idx[t] /\ num'[t] = num[t]
    BY <1>12 DEF Serve, sess
  <2> QED
    BY <2>1, <2>2, SameHolds, OpenKept
<1>13. ASSUME NEW s \in Sessions, CloseProxy(s)
      PROVE  OpenRowHasSession'
  <2>1. up' = up /\ rows' = rows /\ fails' = fails
    BY <1>13 DEF CloseProxy, bounds
  <2>2. \A t \in Sessions : pc'[t] = pc[t] /\ idx'[t] = idx[t] /\ num'[t] = num[t]
    BY <1>13 DEF CloseProxy, sess
  <2> QED
    BY <2>1, <2>2, SameHolds, OpenKept
<1>14. ASSUME NEW s \in Sessions, ServeEnds(s)
      PROVE  OpenRowHasSession'
  <2>1. up' = up /\ rows' = rows /\ fails' = fails
    BY <1>14 DEF ServeEnds, bounds
  <2>2. \A t \in Sessions : pc'[t] = pc[t] /\ idx'[t] = idx[t] /\ num'[t] = num[t]
    BY <1>14 DEF ServeEnds, sess
  <2> QED
    BY <2>1, <2>2, SameHolds, OpenKept
<1>15. ASSUME NEW s \in Sessions, Heartbeat(s)
      PROVE  OpenRowHasSession'
  <2>1. fails' = 0 => fails = 0
    BY <1>15, <1>0 DEF Heartbeat, Exec, ExecCount, bounds
  <2>2. up' = up /\ \A r \in DOMAIN rows' : rows'[r].status = "open" =>
                       r \in DOMAIN rows /\ rows[r].status = "open"
    BY <1>15, <1>0, CountedTable DEF Heartbeat, ExecCount
  <2>3. \A t \in Sessions : pc'[t] = pc[t] /\ idx'[t] = idx[t] /\ num'[t] = num[t]
    BY <1>15 DEF Heartbeat, sess
  <2> QED
    BY <2>1, <2>2, <2>3, SameHolds, OpenKept
<1>16. ASSUME NEW s \in Sessions, HeartbeatStops(s)
      PROVE  OpenRowHasSession'
  <2>1. up' = up /\ rows' = rows /\ fails' = fails
    BY <1>16 DEF HeartbeatStops, bounds
  <2>2. \A t \in Sessions : pc'[t] = pc[t] /\ idx'[t] = idx[t] /\ num'[t] = num[t]
    BY <1>16 DEF HeartbeatStops, sess
  <2> QED
    BY <2>1, <2>2, SameHolds, OpenKept
<1>17. ASSUME NEW s \in Sessions, WaitReturns(s)
      PROVE  OpenRowHasSession'
  <2>1. up' = up /\ rows' = rows /\ fails' = fails
    BY <1>17 DEF WaitReturns, bounds
  <2>2. \A t \in Sessions \ {s} : pc'[t] = pc[t] /\ idx'[t] = idx[t] /\ num'[t] = num[t]
    BY <1>17, <1>0 DEF WaitReturns, RowDone, sess
  <2>3. pc[s] = "running" /\ pc'[s] = "final" /\ idx'[s] = 0 /\ num'[s] = num[s]
    BY <1>17, <1>0 DEF WaitReturns
  <2>4. \A r : Holds(s, r) => Holds(s, r)'
    BY <1>0, <2>3 DEF Holds, RowAt, Base
  <2> QED
    BY <2>1, <2>2, <2>4, SameHolds, OpenKept
<1>18. ASSUME NEW s \in Sessions, FinalUpdate(s)
      PROVE  OpenRowHasSession'
  <2>2. \A t \in Sessions \ {s} : pc'[t] = pc[t] /\ idx'[t] = idx[t] /\ num'[t] = num[t]
    BY <1>18, <1>0 DEF FinalUpdate, RowDone, sess
  <2>1. up' = up /\ (fails' = 0 => fails = 0)
    BY <1>18, <1>0 DEF FinalUpdate, Exec
  <2>3. fails' = 0 => \A r \in DOMAIN rows' : rows'[r].status = "open" =>
          r \in DOMAIN rows /\ rows[r].status = "open" /\ r # RowAt(s, idx[s])
    <3>1. FinalStatus(s) \in Statuses /\ FinalStatus(s) # "open"
      BY RowType DEF FinalStatus
    <3> QED
      BY <1>18, <1>0, <3>1, UpdatedTable DEF FinalUpdate, Exec
  <2>4. /\ num'[s] = num[s] /\ pc[s] = "final" /\ idx[s] \in 0..Len0(s)
        /\ \/ idx[s] < Len0(s) /\ pc'[s] = "final" /\ idx'[s] = idx[s] + 1
           \/ idx[s] = Len0(s)
    BY <1>18, <1>0 DEF FinalUpdate, Shape
  <2>5. ASSUME NEW r, Holds(s, r), r # RowAt(s, idx[s]) PROVE Holds(s, r)'
    <3>1. PICK i \in 0..Len0(s) : RowAt(s, i) = r /\ i >= idx[s]
      BY <2>4, <2>5 DEF Holds, Opening
    <3>2. i \in Nat /\ i # idx[s] /\ i >= idx[s] + 1 /\ idx[s] # Len0(s)
      BY <1>0, <2>4, <2>5, <3>1
    <3> QED
      BY <2>4, <3>1, <3>2 DEF Holds, RowAt, Base
  <2> QED
    BY <2>1, <2>2, <2>3, <2>5, SameHolds DEF OpenRowHasSession
<1>19. ASSUME NEW s \in Sessions, BindEnds(s)
      PROVE  OpenRowHasSession'
  <2>1. up' = up /\ rows' = rows /\ fails' = fails
    BY <1>19 DEF BindEnds, bounds
  <2>2. \A t \in Sessions : pc'[t] = pc[t] /\ idx'[t] = idx[t] /\ num'[t] = num[t]
    BY <1>19 DEF BindEnds, sess
  <2> QED
    BY <2>1, <2>2, SameHolds, OpenKept
<1>20. ASSUME NEW c \in Conns, NEW s \in Sessions, Accept(c, s)
      PROVE  OpenRowHasSession'
  <2>1. up' = up /\ rows' = rows /\ fails' = fails
    BY <1>20 DEF Accept, bounds
  <2>2. \A t \in Sessions : pc'[t] = pc[t] /\ idx'[t] = idx[t] /\ num'[t] = num[t]
    BY <1>20 DEF Accept, sess
  <2> QED
    BY <2>1, <2>2, SameHolds, OpenKept
<1>21. ASSUME NEW c \in Conns, OnOpen(c)
      PROVE  OpenRowHasSession'
  <2>1. fails' = 0 => fails = 0
    BY <1>21, <1>0 DEF OnOpen, Exec, ExecCount, bounds
  <2>2. up' = up /\ \A r \in DOMAIN rows' : rows'[r].status = "open" =>
                       r \in DOMAIN rows /\ rows[r].status = "open"
    BY <1>21, <1>0, CountedTable DEF OnOpen, ExecCount
  <2>3. \A t \in Sessions : pc'[t] = pc[t] /\ idx'[t] = idx[t] /\ num'[t] = num[t]
    BY <1>21 DEF OnOpen, sess
  <2> QED
    BY <2>1, <2>2, <2>3, SameHolds, OpenKept
<1>22. ASSUME NEW c \in Conns, OnClose(c)
      PROVE  OpenRowHasSession'
  <2>1. fails' = 0 => fails = 0
    BY <1>22, <1>0 DEF OnClose, Exec, ExecCount, bounds
  <2>2. up' = up /\ \A r \in DOMAIN rows' : rows'[r].status = "open" =>
                       r \in DOMAIN rows /\ rows[r].status = "open"
    BY <1>22, <1>0, CountedTable DEF OnClose, ExecCount
  <2>3. \A t \in Sessions : pc'[t] = pc[t] /\ idx'[t] = idx[t] /\ num'[t] = num[t]
    BY <1>22 DEF OnClose, sess
  <2> QED
    BY <2>1, <2>2, <2>3, SameHolds, OpenKept
<1>23. CASE Reconcile
  <2>1. fails' = 0 => fails = 0
    BY <1>23, <1>0 DEF Reconcile, Exec, ExecCount, bounds
  <2>2. up' = up /\ \A r \in DOMAIN rows' : rows'[r].status = "open" =>
                       r \in DOMAIN rows /\ rows[r].status = "open"
    BY <1>23, <1>0, ClosedOpenTable DEF Reconcile, Exec
  <2>3. \A t \in Sessions : pc'[t] = pc[t] /\ idx'[t] = idx[t] /\ num'[t] = num[t]
    BY <1>23 DEF Reconcile, sess
  <2> QED
    BY <2>1, <2>2, <2>3, SameHolds, OpenKept
<1>24. CASE DeleteClosedTunnels
  <2>1. fails' = 0 => fails = 0
    BY <1>24, <1>0 DEF DeleteClosedTunnels, Exec, ExecCount, bounds
  <2>2. up' = up /\ \A r \in DOMAIN rows' : rows'[r].status = "open" =>
                       r \in DOMAIN rows /\ rows[r].status = "open"
    BY <1>24, <1>0, WithoutClosedTable DEF DeleteClosedTunnels
  <2>3. \A t \in Sessions : pc'[t] = pc[t] /\ idx'[t] = idx[t] /\ num'[t] = num[t]
    BY <1>24 DEF DeleteClosedTunnels, sess
  <2> QED
    BY <2>1, <2>2, <2>3, SameHolds, OpenKept
<1>25. CASE Collect
  <2>1. up' = up /\ rows' = rows /\ fails' = fails
    BY <1>25 DEF Collect, bounds
  <2>2. \A t \in Sessions : pc'[t] = pc[t] /\ idx'[t] = idx[t] /\ num'[t] = num[t]
    BY <1>25 DEF Collect, sess
  <2> QED
    BY <2>1, <2>2, SameHolds, OpenKept
<1>26. CASE Tick
  <2>1. fails' = 0 => fails = 0
    BY <1>26, <1>0 DEF Tick, Exec, ExecCount, bounds
  <2>2. up' = up /\ \A r \in DOMAIN rows' : rows'[r].status = "open" =>
                       r \in DOMAIN rows /\ rows[r].status = "open"
    BY <1>26, <1>0, AgedTable DEF Tick
  <2>3. \A t \in Sessions : pc'[t] = pc[t] /\ idx'[t] = idx[t] /\ num'[t] = num[t]
    BY <1>26 DEF Tick, sess
  <2> QED
    BY <2>1, <2>2, <2>3, SameHolds, OpenKept
<1>27. CASE Crash
  BY <1>27 DEF Crash, OpenRowHasSession
<1>28. CASE Start
  <2>1. fails' = 0 => rows' = ClosedOpen(OlderThan(0))
    BY <1>28, <1>0 DEF Start, Exec
  <2>2. OlderThan(0) = DOMAIN rows
    <3>1. \A x \in DOMAIN rows : rows[x].age \in 0..Stale
      BY <1>0, RowType DEF IsTable
    <3>2. \A n \in 0..Stale : n >= 0
      OBVIOUS
    <3> QED
      BY <3>1, <3>2 DEF OlderThan
  <2> QED
    BY <1>0, <2>1, <2>2, ClosedOpenTable DEF OpenRowHasSession
<1> QED
  BY <1>1, <1>2, <1>3, <1>4, <1>5, <1>6, <1>7, <1>8, <1>9, <1>10, <1>11, <1>12, <1>13, <1>14, <1>15, <1>16, <1>17, <1>18, <1>19, <1>20, <1>21, <1>22, <1>23, <1>24, <1>25, <1>26, <1>27, <1>28
  DEF Next, Session, Handler, Proxied, Server

-----------------------------------------------------------------------------
(* The rows of a live session are fresh.                                   *)

(* What Fresh says of the i-th row of session t.                           *)
FreshRow(t, i) ==
  RowAt(t, i) \in DOMAIN rows =>
    /\ pc[t] \in Opening /\ i < idx[t] => rows[RowAt(t, i)].age = 0
    /\ hb[t] /\ ~due[t] => rows[RowAt(t, i)].age = 0
    /\ hb[t] => rows[RowAt(t, i)].age <= 1

(* A step in which the rows that exist are touched or left alone.          *)
Touched == \A r \in DOMAIN rows' :
  rows'[r].age = 0 \/ (r \in DOMAIN rows /\ rows'[r] = rows[r])

(* Such a step keeps the rows of a session that stays where it is fresh.   *)
LEMMA FreshSame ==
  ASSUME NEW t, NEW i, FreshRow(t, i), Touched,
         pc'[t] = pc[t], idx'[t] = idx[t], num'[t] = num[t],
         hb'[t] = hb[t], due'[t] = due[t]
  PROVE  FreshRow(t, i)'
<1>1. RowAt(t, i)' = RowAt(t, i)
  BY DEF RowAt, Base
<1> QED
  BY <1>1 DEF FreshRow, Touched

(* Freshness of the rows, one session and one row at a time.               *)
LEMMA FreshAlt == Fresh <=> (fails = 0 => \A t \in Sessions : \A i \in 0..Len0(t) : FreshRow(t, i))
BY DEF Fresh, FreshRow

(* A step that ages no row, and leaves each session where it is or its row *)
(* fresh, keeps the rows fresh.                                            *)
LEMMA FreshKept ==
  ASSUME Fresh, fails' = 0 => fails = 0 /\ Touched,
         fails' = 0 => \A t \in Sessions : \A i \in 0..Len0(t) :
           \/ /\ pc'[t] = pc[t] /\ idx'[t] = idx[t] /\ num'[t] = num[t]
              /\ hb'[t] = hb[t] /\ due'[t] = due[t]
           \/ FreshRow(t, i)'
  PROVE  Fresh'
<1> SUFFICES ASSUME fails' = 0, NEW t \in Sessions, NEW i \in 0..Len0(t)
             PROVE  FreshRow(t, i)'
  BY DEF Fresh, FreshRow
<1>1. FreshRow(t, i)
  BY FreshAlt
<1> QED
  BY <1>1, FreshSame

(* Every step keeps the rows of live sessions fresh.                        *)
LEMMA FreshStep ==
  ASSUME TypeOK, Shape, Fresh, [Next]_vars
  PROVE  Fresh'
<1> USE SessionAssumption
<1>0. /\ pc \in [Sessions -> PCs] /\ idx \in [Sessions -> Nat]
      /\ num \in [Sessions -> Nat] /\ fails \in Nat /\ IsTable(rows)
      /\ hb \in [Sessions -> BOOLEAN] /\ due \in [Sessions -> BOOLEAN]
      /\ \A s \in Sessions : Len0(s) \in Nat
  BY HandlerTypes, Len0Type DEF TypeOK
<1>1. CASE UNCHANGED vars
  <2>1. fails' = fails /\ Touched
    BY <1>1 DEF vars, bounds, Touched
  <2>2. \A t \in Sessions : /\ pc'[t] = pc[t] /\ idx'[t] = idx[t] /\ num'[t] = num[t]
                            /\ hb'[t] = hb[t] /\ due'[t] = due[t]
    BY <1>1 DEF vars, sess
  <2> QED
    BY <2>1, <2>2, FreshKept
<1>2. ASSUME NEW s \in Sessions, Handshake(s)
      PROVE  Fresh'
  <2>1. fails' = 0 => fails = 0 /\ Touched
    BY <1>2, <1>0 DEF Handshake, Touched, bounds
  <2>2. \A t \in Sessions \ {s} : /\ pc'[t] = pc[t] /\ idx'[t] = idx[t] /\ num'[t] = num[t]
                                  /\ hb'[t] = hb[t] /\ due'[t] = due[t]
    BY <1>2, <1>0 DEF Handshake, RowDone, sess
  <2>3. pc'[s] \notin Opening /\ ~hb'[s]
    BY <1>2, <1>0 DEF Handshake, Shape, Opening, sess
  <2>4. \A i : FreshRow(s, i)'
    BY <2>3 DEF FreshRow
  <2> QED
    BY <2>1, <2>2, <2>4, FreshKept
<1>3. ASSUME NEW s \in Sessions, Refuse(s)
      PROVE  Fresh'
  <2>1. fails' = 0 => fails = 0 /\ Touched
    BY <1>3, <1>0 DEF Refuse, Touched, bounds
  <2>2. \A t \in Sessions \ {s} : /\ pc'[t] = pc[t] /\ idx'[t] = idx[t] /\ num'[t] = num[t]
                                  /\ hb'[t] = hb[t] /\ due'[t] = due[t]
    BY <1>3, <1>0 DEF Refuse, RowDone, sess
  <2>3. pc'[s] \notin Opening /\ ~hb'[s]
    BY <1>3, <1>0 DEF Refuse, Shape, Opening, sess
  <2>4. \A i : FreshRow(s, i)'
    BY <2>3 DEF FreshRow
  <2> QED
    BY <2>1, <2>2, <2>4, FreshKept
<1>4. ASSUME NEW s \in Sessions, CheckRemote(s)
      PROVE  Fresh'
  <2>1. fails' = 0 => fails = 0 /\ Touched
    BY <1>4, <1>0 DEF CheckRemote, Touched, bounds
  <2>2. \A t \in Sessions \ {s} : /\ pc'[t] = pc[t] /\ idx'[t] = idx[t] /\ num'[t] = num[t]
                                  /\ hb'[t] = hb[t] /\ due'[t] = due[t]
    BY <1>4, <1>0 DEF CheckRemote, RowDone, sess
  <2>3. pc'[s] \notin Opening /\ ~hb'[s]
    BY <1>4, <1>0 DEF CheckRemote, Shape, Opening, sess
  <2>4. \A i : FreshRow(s, i)'
    BY <2>3 DEF FreshRow
  <2> QED
    BY <2>1, <2>2, <2>4, FreshKept
<1>5. ASSUME NEW s \in Sessions, Reply(s)
      PROVE  Fresh'
  <2>1. fails' = 0 => fails = 0 /\ Touched
    BY <1>5, <1>0 DEF Reply, Touched, bounds
  <2>2. \A t \in Sessions \ {s} : /\ pc'[t] = pc[t] /\ idx'[t] = idx[t] /\ num'[t] = num[t]
                                  /\ hb'[t] = hb[t] /\ due'[t] = due[t]
    BY <1>5, <1>0 DEF Reply, RowDone, sess
  <2>3. idx'[s] = 0 /\ ~hb'[s]
    BY <1>5, <1>0 DEF Reply, Shape
  <2>4. \A i \in 0..Len0(s) : FreshRow(s, i)'
    BY <1>0, <2>3 DEF FreshRow
  <2> QED
    BY <2>1, <2>2, <2>4, FreshKept
<1>6. ASSUME NEW s \in Sessions, CloseRow(s)
      PROVE  Fresh'
  <2>1. fails' = 0 => fails = 0 /\ Touched
    BY <1>6, <1>0, ClosedOpenTable DEF CloseRow, Exec, Touched
  <2>2. \A t \in Sessions \ {s} : /\ pc'[t] = pc[t] /\ idx'[t] = idx[t] /\ num'[t] = num[t]
                                  /\ hb'[t] = hb[t] /\ due'[t] = due[t]
    BY <1>6, <1>0 DEF CloseRow, RowDone, sess
  <2>3. /\ pc[s] \in Opening /\ ~hb'[s] /\ idx'[s] = idx[s] /\ num'[s] = num[s]
    BY <1>6, <1>0 DEF CloseRow, Shape, Opening, sess
  <2>4. ASSUME fails' = 0, NEW i \in 0..Len0(s) PROVE FreshRow(s, i)'
    <3>1. FreshRow(s, i) /\ RowAt(s, i)' = RowAt(s, i)
      BY <2>1, <2>3, <2>4, FreshAlt DEF RowAt, Base
    <3> QED
      BY <2>1, <2>3, <2>4, <3>1 DEF FreshRow, Touched
  <2> QED
    BY <2>1, <2>2, <2>4, FreshKept
<1>7. ASSUME NEW s \in Sessions, CreateRow(s)
      PROVE  Fresh'
  <2>0. /\ RowAt(s, idx[s]) \in RowIds /\ UserOf[s] \in Users
        /\ DOMAIN Created(RowAt(s, idx[s]), UserOf[s]) = DOMAIN rows \cup {RowAt(s, idx[s])}
        /\ Created(RowAt(s, idx[s]), UserOf[s])[RowAt(s, idx[s])].age = 0
        /\ \A x \in DOMAIN rows \ {RowAt(s, idx[s])} :
              Created(RowAt(s, idx[s]), UserOf[s])[x] = rows[x]
    <3>1. RowAt(s, idx[s]) \in RowIds /\ UserOf[s] \in Users
      BY <1>7, RowAtType DEF CreateRow, Shape, Opening, SessionAssumption
    <3> QED
      BY <1>0, <3>1, CreatedTable
  <2>1. fails' = 0 => fails = 0 /\ Touched
    BY <1>7, <1>0, <2>0 DEF CreateRow, bounds, Touched
  <2>2. \A t \in Sessions \ {s} : /\ pc'[t] = pc[t] /\ idx'[t] = idx[t] /\ num'[t] = num[t]
                                  /\ hb'[t] = hb[t] /\ due'[t] = due[t]
    BY <1>7, <1>0 DEF CreateRow, RowDone, sess
  <2>3. /\ pc[s] \in Opening /\ idx[s] \in 0..Len0(s) /\ num'[s] = num[s]
        /\ ~hb[s] /\ ~due[s] /\ due'[s] = due[s]
    BY <1>7 DEF CreateRow, Opening, Shape
  <2>4. \/ idx'[s] = idx[s] + 1 /\ hb'[s] = hb[s]
        \/ idx[s] = Len0(s) /\ pc'[s] = "running"
    BY <1>7, <1>0, <2>3 DEF CreateRow, RowDone
  <2>5. fails' = 0 => (RowAt(s, idx[s]) \in DOMAIN rows' => rows'[RowAt(s, idx[s])].age = 0)
    BY <1>7, <1>0, <2>0 DEF CreateRow
  <2>6. ASSUME fails' = 0, NEW i \in 0..Len0(s) PROVE FreshRow(s, i)'
    <3>1. FreshRow(s, i) /\ RowAt(s, i)' = RowAt(s, i)
      BY <2>1, <2>3, <2>6, FreshAlt DEF RowAt, Base
    <3>2. CASE i < idx[s]
      <4>1. RowAt(s, i) \in DOMAIN rows' => rows'[RowAt(s, i)].age = 0
        BY <2>1, <2>3, <2>6, <3>1, <3>2 DEF FreshRow, Touched
      <4> QED
        BY <3>1, <4>1 DEF FreshRow
    <3>3. CASE i = idx[s]
      BY <2>5, <2>6, <3>1, <3>3 DEF FreshRow
    <3>4. CASE i > idx[s]
      <4>1. ~hb'[s] /\ ~(i < idx'[s])
        BY <1>0, <2>3, <2>4, <3>4
      <4> QED
        BY <4>1 DEF FreshRow
    <3> QED
      BY <1>0, <2>3, <3>2, <3>3, <3>4
  <2> QED
    BY <2>1, <2>2, <2>6, FreshKept
<1>8. ASSUME NEW s \in Sessions, CreateRowFails(s)
      PROVE  Fresh'
  <2>1. fails' = 0 => fails = 0 /\ Touched
    BY <1>8, <1>0 DEF CreateRowFails, Touched
  <2>2. \A t \in Sessions \ {s} : /\ pc'[t] = pc[t] /\ idx'[t] = idx[t] /\ num'[t] = num[t]
                                  /\ hb'[t] = hb[t] /\ due'[t] = due[t]
    BY <1>8, <1>0 DEF CreateRowFails, RowDone, sess
  <2>3. /\ pc[s] \in Opening /\ ~hb'[s] /\ idx'[s] = idx[s] /\ num'[s] = num[s]
    BY <1>8, <1>0 DEF CreateRowFails, Shape, Opening, sess
  <2>4. ASSUME fails' = 0, NEW i \in 0..Len0(s) PROVE FreshRow(s, i)'
    <3>1. FreshRow(s, i) /\ RowAt(s, i)' = RowAt(s, i)
      BY <2>1, <2>3, <2>4, FreshAlt DEF RowAt, Base
    <3> QED
      BY <2>1, <2>3, <2>4, <3>1 DEF FreshRow, Touched
  <2> QED
    BY <2>1, <2>2, <2>4, FreshKept
<1>9. ASSUME NEW s \in Sessions, UpdateRow(s)
      PROVE  Fresh'
  <2>0. LET t == Updated(RowAt(s, idx[s]), "open") IN
        /\ DOMAIN t = DOMAIN rows
        /\ \A x \in DOMAIN rows : t[x].age = 0 \/ t[x] = rows[x]
        /\ RowAt(s, idx[s]) \in DOMAIN rows => t[RowAt(s, idx[s])].age = 0
    BY <1>0, UpdatedTable, RowType
  <2>1. fails' = 0 => fails = 0 /\ Touched
    BY <1>9, <1>0, <2>0 DEF UpdateRow, Exec, Touched
  <2>2. \A t \in Sessions \ {s} : /\ pc'[t] = pc[t] /\ idx'[t] = idx[t] /\ num'[t] = num[t]
                                  /\ hb'[t] = hb[t] /\ due'[t] = due[t]
    BY <1>9, <1>0 DEF UpdateRow, RowDone, sess
  <2>3. /\ pc[s] \in Opening /\ idx[s] \in 0..Len0(s) /\ num'[s] = num[s]
        /\ ~hb[s] /\ ~due[s] /\ due'[s] = due[s]
    BY <1>9 DEF UpdateRow, Opening, Shape
  <2>4. \/ idx'[s] = idx[s] + 1 /\ hb'[s] = hb[s]
        \/ idx[s] = Len0(s) /\ pc'[s] = "running"
    BY <1>9, <1>0, <2>3 DEF UpdateRow, RowDone
  <2>5. fails' = 0 => (RowAt(s, idx[s]) \in DOMAIN rows' => rows'[RowAt(s, idx[s])].age = 0)
    BY <1>9, <1>0, <2>0 DEF UpdateRow, Exec
  <2>6. ASSUME fails' = 0, NEW i \in 0..Len0(s) PROVE FreshRow(s, i)'
    <3>1. FreshRow(s, i) /\ RowAt(s, i)' = RowAt(s, i)
      BY <2>1, <2>3, <2>6, FreshAlt DEF RowAt, Base
    <3>2. CASE i < idx[s]
      <4>1. RowAt(s, i) \in DOMAIN rows' => rows'[RowAt(s, i)].age = 0
        BY <2>1, <2>3, <2>6, <3>1, <3>2 DEF FreshRow, Touched
      <4> QED
        BY <3>1, <4>1 DEF FreshRow
    <3>3. CASE i = idx[s]
      BY <2>5, <2>6, <3>1, <3>3 DEF FreshRow
    <3>4. CASE i > idx[s]
      <4>1. ~hb'[s] /\ ~(i < idx'[s])
        BY <1>0, <2>3, <2>4, <3>4
      <4> QED
        BY <4>1 DEF FreshRow
    <3> QED
      BY <1>0, <2>3, <3>2, <3>3, <3>4
  <2> QED
    BY <2>1, <2>2, <2>6, FreshKept
<1>10. ASSUME NEW s \in Sessions, Listen(s)
      PROVE  Fresh'
  <2>1. fails' = 0 => fails = 0 /\ Touched
    BY <1>10, <1>0 DEF Listen, Touched, bounds
  <2>2. \A t \in Sessions \ {s} : /\ pc'[t] = pc[t] /\ idx'[t] = idx[t] /\ num'[t] = num[t]
                                  /\ hb'[t] = hb[t] /\ due'[t] = due[t]
    BY <1>10, <1>0 DEF Listen, RowDone, sess
  <2>3. /\ pc[s] = "running" /\ pc'[s] = "running" /\ num'[s] = num[s]
        /\ hb'[s] = hb[s] /\ due'[s] = due[s]
    BY <1>10 DEF Listen, Shape
  <2>4. ASSUME fails' = 0, NEW i \in 0..Len0(s) PROVE FreshRow(s, i)'
    <3>1. FreshRow(s, i) /\ RowAt(s, i)' = RowAt(s, i)
      BY <2>1, <2>3, <2>4, FreshAlt DEF RowAt, Base
    <3> QED
      BY <2>1, <2>3, <2>4, <3>1 DEF FreshRow, Touched, Opening
  <2> QED
    BY <2>1, <2>2, <2>4, FreshKept
<1>11. ASSUME NEW s \in Sessions, ListenFails(s)
      PROVE  Fresh'
  <2>1. fails' = 0 => fails = 0 /\ Touched
    BY <1>11, <1>0 DEF ListenFails, Touched, bounds
  <2>2. \A t \in Sessions : /\ pc'[t] = pc[t] /\ idx'[t] = idx[t] /\ num'[t] = num[t]
                            /\ hb'[t] = hb[t] /\ due'[t] = due[t]
    BY <1>11 DEF ListenFails, sess
  <2> QED
    BY <2>1, <2>2, FreshKept
<1>12. ASSUME NEW s \in Sessions, Serve(s)
      PROVE  Fresh'
  <2>1. fails' = 0 => fails = 0 /\ Touched
    BY <1>12, <1>0 DEF Serve, Touched, bounds
  <2>2. \A t \in Sessions : /\ pc'[t] = pc[t] /\ idx'[t] = idx[t] /\ num'[t] = num[t]
                            /\ hb'[t] = hb[t] /\ due'[t] = due[t]
    BY <1>12 DEF Serve, sess
  <2> QED
    BY <2>1, <2>2, FreshKept
<1>13. ASSUME NEW s \in Sessions, CloseProxy(s)
      PROVE  Fresh'
  <2>1. fails' = 0 => fails = 0 /\ Touched
    BY <1>13, <1>0 DEF CloseProxy, Touched, bounds
  <2>2. \A t \in Sessions : /\ pc'[t] = pc[t] /\ idx'[t] = idx[t] /\ num'[t] = num[t]
                            /\ hb'[t] = hb[t] /\ due'[t] = due[t]
    BY <1>13 DEF CloseProxy, sess
  <2> QED
    BY <2>1, <2>2, FreshKept
<1>14. ASSUME NEW s \in Sessions, ServeEnds(s)
      PROVE  Fresh'
  <2>1. fails' = 0 => fails = 0 /\ Touched
    BY <1>14, <1>0 DEF ServeEnds, Touched, bounds
  <2>2. \A t \in Sessions : /\ pc'[t] = pc[t] /\ idx'[t] = idx[t] /\ num'[t] = num[t]
                            /\ hb'[t] = hb[t] /\ due'[t] = due[t]
    BY <1>14 DEF ServeEnds, sess
  <2> QED
    BY <2>1, <2>2, FreshKept
<1>15. ASSUME NEW s \in Sessions, Heartbeat(s)
      PROVE  Fresh'
  <2>1. fails' = 0 => fails = 0 /\ Touched
    BY <1>15, <1>0, CountedTable DEF Heartbeat, ExecCount, Touched
  <2>2. \A t \in Sessions \ {s} : /\ pc'[t] = pc[t] /\ idx'[t] = idx[t] /\ num'[t] = num[t]
                                  /\ hb'[t] = hb[t] /\ due'[t] = due[t]
    BY <1>15, <1>0 DEF Heartbeat, RowDone, sess
  <2>3. num'[s] = num[s] /\ pc'[s] = "running"
    BY <1>15 DEF Heartbeat, Shape
  <2>4. fails' = 0 => rows' = Counted(RowsOf(s), 0)
    BY <1>15, <1>0 DEF Heartbeat, ExecCount
  <2>5. ASSUME fails' = 0, NEW i \in 0..Len0(s) PROVE FreshRow(s, i)'
    <3>1. RowAt(s, i)' = RowAt(s, i) /\ RowAt(s, i) \in RowsOf(s)
      BY <2>3 DEF RowAt, Base, RowsOf
    <3>2. RowAt(s, i) \in DOMAIN rows' => rows'[RowAt(s, i)].age = 0
      BY <1>0, <2>4, <2>5, <3>1, CountedTable
    <3> QED
      BY <3>1, <3>2 DEF FreshRow
  <2> QED
    BY <2>1, <2>2, <2>5, FreshKept
<1>16. ASSUME NEW s \in Sessions, HeartbeatStops(s)
      PROVE  Fresh'
  <2>1. fails' = 0 => fails = 0 /\ Touched
    BY <1>16, <1>0 DEF HeartbeatStops, Touched, bounds
  <2>2. \A t \in Sessions \ {s} : /\ pc'[t] = pc[t] /\ idx'[t] = idx[t] /\ num'[t] = num[t]
                                  /\ hb'[t] = hb[t] /\ due'[t] = due[t]
    BY <1>16, <1>0 DEF HeartbeatStops, RowDone, sess
  <2>3. pc'[s] \notin Opening /\ ~hb'[s]
    BY <1>16, <1>0 DEF HeartbeatStops, Shape, Opening, sess
  <2>4. \A i : FreshRow(s, i)'
    BY <2>3 DEF FreshRow
  <2> QED
    BY <2>1, <2>2, <2>4, FreshKept
<1>17. ASSUME NEW s \in Sessions, WaitReturns(s)
      PROVE  Fresh'
  <2>1. fails' = 0 => fails = 0 /\ Touched
    BY <1>17, <1>0 DEF WaitReturns, Touched, bounds
  <2>2. \A t \in Sessions \ {s} : /\ pc'[t] = pc[t] /\ idx'[t] = idx[t] /\ num'[t] = num[t]
                                  /\ hb'[t] = hb[t] /\ due'[t] = due[t]
    BY <1>17, <1>0 DEF WaitReturns, RowDone, sess
  <2>3. pc'[s] \notin Opening /\ ~hb'[s]
    BY <1>17, <1>0 DEF WaitReturns, Shape, Opening, sess
  <2>4. \A i : FreshRow(s, i)'
    BY <2>3 DEF FreshRow
  <2> QED
    BY <2>1, <2>2, <2>4, FreshKept
<1>18. ASSUME NEW s \in Sessions, FinalUpdate(s)
      PROVE  Fresh'
  <2>0. FinalStatus(s) \in Statuses
    BY RowType DEF FinalStatus
  <2>1. fails' = 0 => fails = 0 /\ Touched
    BY <1>18, <1>0, <2>0, UpdatedTable DEF FinalUpdate, Exec, Touched
  <2>2. \A t \in Sessions \ {s} : /\ pc'[t] = pc[t] /\ idx'[t] = idx[t] /\ num'[t] = num[t]
                                  /\ hb'[t] = hb[t] /\ due'[t] = due[t]
    BY <1>18, <1>0 DEF FinalUpdate, RowDone, sess
  <2>3. pc'[s] \notin Opening /\ ~hb'[s]
    BY <1>18, <1>0 DEF FinalUpdate, Shape, Opening, sess
  <2>4. \A i : FreshRow(s, i)'
    BY <2>3 DEF FreshRow
  <2> QED
    BY <2>1, <2>2, <2>4, FreshKept
<1>19. ASSUME NEW s \in Sessions, BindEnds(s)
      PROVE  Fresh'
  <2>1. fails' = 0 => fails = 0 /\ Touched
    BY <1>19, <1>0 DEF BindEnds, Touched, bounds
  <2>2. \A t \in Sessions : /\ pc'[t] = pc[t] /\ idx'[t] = idx[t] /\ num'[t] = num[t]
                            /\ hb'[t] = hb[t] /\ due'[t] = due[t]
    BY <1>19 DEF BindEnds, sess
  <2> QED
    BY <2>1, <2>2, FreshKept
<1>20. ASSUME NEW c \in Conns, NEW s \in Sessions, Accept(c, s)
      PROVE  Fresh'
  <2>1. fails' = 0 => fails = 0 /\ Touched
    BY <1>20, <1>0 DEF Accept, Touched, bounds
  <2>2. \A t \in Sessions : /\ pc'[t] = pc[t] /\ idx'[t] = idx[t] /\ num'[t] = num[t]
                            /\ hb'[t] = hb[t] /\ due'[t] = due[t]
    BY <1>20 DEF Accept, sess
  <2> QED
    BY <2>1, <2>2, FreshKept
<1>21. ASSUME NEW c \in Conns, OnOpen(c)
      PROVE  Fresh'
  <2>1. fails' = 0 => fails = 0 /\ Touched
    BY <1>21, <1>0, CountedTable DEF OnOpen, ExecCount, Touched
  <2>2. \A t \in Sessions : /\ pc'[t] = pc[t] /\ idx'[t] = idx[t] /\ num'[t] = num[t]
                            /\ hb'[t] = hb[t] /\ due'[t] = due[t]
    BY <1>21 DEF OnOpen, sess
  <2> QED
    BY <2>1, <2>2, FreshKept
<1>22. ASSUME NEW c \in Conns, OnClose(c)
      PROVE  Fresh'
  <2>1. fails' = 0 => fails = 0 /\ Touched
    BY <1>22, <1>0, CountedTable DEF OnClose, ExecCount, Touched
  <2>2. \A t \in Sessions : /\ pc'[t] = pc[t] /\ idx'[t] = idx[t] /\ num'[t] = num[t]
                            /\ hb'[t] = hb[t] /\ due'[t] = due[t]
    BY <1>22 DEF OnClose, sess
  <2> QED
    BY <2>1, <2>2, FreshKept
<1>23. CASE Reconcile
  <2>1. fails' = 0 => fails = 0 /\ Touched
    BY <1>23, <1>0, ClosedOpenTable DEF Reconcile, Exec, Touched
  <2>2. \A t \in Sessions : /\ pc'[t] = pc[t] /\ idx'[t] = idx[t] /\ num'[t] = num[t]
                            /\ hb'[t] = hb[t] /\ due'[t] = due[t]
    BY <1>23 DEF Reconcile, sess
  <2> QED
    BY <2>1, <2>2, FreshKept
<1>24. CASE DeleteClosedTunnels
  <2>1. fails' = 0 => fails = 0 /\ Touched
    BY <1>24, <1>0, WithoutClosedTable DEF DeleteClosedTunnels, bounds, Touched
  <2>2. \A t \in Sessions : /\ pc'[t] = pc[t] /\ idx'[t] = idx[t] /\ num'[t] = num[t]
                            /\ hb'[t] = hb[t] /\ due'[t] = due[t]
    BY <1>24 DEF DeleteClosedTunnels, sess
  <2> QED
    BY <2>1, <2>2, FreshKept
<1>25. CASE Collect
  <2>1. fails' = 0 => fails = 0 /\ Touched
    BY <1>25, <1>0 DEF Collect, Touched, bounds
  <2>2. \A t \in Sessions : /\ pc'[t] = pc[t] /\ idx'[t] = idx[t] /\ num'[t] = num[t]
                            /\ hb'[t] = hb[t] /\ due'[t] = due[t]
    BY <1>25 DEF Collect, sess
  <2> QED
    BY <2>1, <2>2, FreshKept
<1>26. CASE Tick
  <2>1. ASSUME fails' = 0, NEW t \in Sessions, NEW i \in 0..Len0(t) PROVE FreshRow(t, i)'
    <3>1. /\ RowAt(t, i)' = RowAt(t, i) /\ pc'[t] \notin Opening
          /\ hb'[t] = hb[t] /\ due'[t] = hb[t] /\ ~due[t] /\ fails = 0
      BY <2>1, <1>26 DEF Tick, bounds, RowAt, Base
    <3>2. FreshRow(t, i)
      BY <3>1, FreshAlt
    <3>3. /\ DOMAIN rows' = DOMAIN rows
          /\ RowAt(t, i) \in DOMAIN rows =>
               (rows[RowAt(t, i)].age = 0 => rows'[RowAt(t, i)].age = 1)
      BY <1>26, <1>0, AgedTable DEF Tick, Stale
    <3> QED
      BY <3>1, <3>2, <3>3 DEF FreshRow
  <2> QED
    BY <2>1 DEF Fresh, FreshRow
<1>27. CASE Crash
  <2>1. \A t \in Sessions : pc'[t] \notin Opening /\ ~hb'[t]
    BY <1>27 DEF Crash, Opening
  <2> QED
    BY <2>1 DEF Fresh
<1>28. CASE Start
  <2>1. fails' = 0 => fails = 0 /\ Touched
    BY <1>28, <1>0, ClosedOpenTable DEF Start, Exec, Touched
  <2>2. \A t \in Sessions : /\ pc'[t] = pc[t] /\ idx'[t] = idx[t] /\ num'[t] = num[t]
                            /\ hb'[t] = hb[t] /\ due'[t] = due[t]
    BY <1>28 DEF Start, sess
  <2> QED
    BY <2>1, <2>2, FreshKept
<1> QED
  BY <1>1, <1>2, <1>3, <1>4, <1>5, <1>6, <1>7, <1>8, <1>9, <1>10, <1>11, <1>12, <1>13, <1>14, <1>15, <1>16, <1>17, <1>18, <1>19, <1>20, <1>21, <1>22, <1>23, <1>24, <1>25, <1>26, <1>27, <1>28
  DEF Next, Session, Handler, Proxied, Server

-----------------------------------------------------------------------------
(* The invariant of handleWebsocket and its rows: types, the shape of the  *)
(* handlers, an owner for every open row, fresh rows of live sessions.     *)
THEOREM Invariance == Spec => []IInv
<1> USE SessionAssumption
<1>1. Init => IInv
  <2> SUFFICES ASSUME Init PROVE IInv
    OBVIOUS
  <2>1. TypeOK
    BY DEF Init, TypeOK, IsTable, PCs, SessionAssumption
  <2>2. Shape
    BY DEF Init, Shape, Opening
  <2>3. OpenRowHasSession /\ Fresh
    BY DEF Init, OpenRowHasSession, Fresh
  <2> QED
    BY <2>1, <2>2, <2>3 DEF IInv
<1>2. IInv /\ [Next]_vars => IInv'
  BY TypeStep, ShapeStep, OpenStep, FreshStep DEF IInv
<1> QED
  BY <1>1, <1>2, PTL DEF Spec

(* The variables of handleWebsocket and the table keep their types.        *)
THEOREM TypeCorrect == Spec => []TypeOK
<1>1. IInv => TypeOK
  BY DEF IInv
<1> QED
  BY <1>1, Invariance, PTL

(* No row of the tunnels table stays open by mistake while the statements  *)
(* of handleWebsocket succeed: some handler still has to close it.         *)
THEOREM NothingLeftOpen == Spec => []OpenRowHasSession
<1>1. IInv => OpenRowHasSession
  BY DEF IInv
<1> QED
  BY <1>1, Invariance, PTL

(* The reconciler of NewServer never finds a row of a live session old     *)
(* enough, while the touches of its heartbeat succeed.                     *)
THEOREM LiveRowsFresh == Spec => []LiveIsFresh
<1>1. IInv => LiveIsFresh
  <2> SUFFICES ASSUME TypeOK, Fresh, fails = 0, NEW s \in Sessions, hb[s],
                      NEW i \in 0..Len0(s), RowAt(s, i) \in DOMAIN rows
               PROVE  rows[RowAt(s, i)].age < Stale
    BY DEF IInv, LiveIsFresh, RowsOf
  <2>1. rows[RowAt(s, i)].age <= 1
    BY DEF Fresh
  <2>2. rows[RowAt(s, i)].age \in 0..Stale
    BY RowType DEF TypeOK, IsTable
  <2> QED
    BY <2>1, <2>2 DEF Stale
<1> QED
  BY <1>1, Invariance, PTL

-----------------------------------------------------------------------------
(* The connections that the base row counts.                               *)

OpenOf(s) == {c \in Conns : cst[c] = "open" /\ cof[c][1] = s}

(* The session's handler has written its base row and not begun to leave.  *)
Counting(s) == (pc[s] \in Opening /\ idx[s] > 0) \/ pc[s] = "running"

Carried(c) == cst[c] \in {"accepted", "open"}

(* A session of this process that may still write its base row.            *)
Present(s) ==
  pc[s] \notin {"idle", "done"} \/ \E c \in Conns : Carried(c) /\ cof[c][1] = s

(* Whoever carries a connection has been bound, by a handler that runs.    *)
ConnShape ==
  /\ \A c \in Conns : Carried(c) =>
       cof[c] \in Sessions \X Ports /\ pc[cof[c][1]] \in {"running", "final", "done"}
  /\ \A s \in Sessions : bind[s] = "up" => pc[s] = "running"

(* Sessions of one process have numbers, and so base rows, of their own.   *)
Numbered ==
  \A s \in Sessions : Present(s) =>
    /\ up /\ num[s] <= sessCount
    /\ \A t \in Sessions \ {s} : Present(t) => num[t] # num[s]

CountsRight ==
  fails = 0 => \A s \in Sessions :
    Counting(s) /\ Base(num[s]) \in DOMAIN rows =>
      rows[Base(num[s])].conns = Cardinality(OpenOf(s))

CountInv == ConnShape /\ Numbered /\ CountsRight

(* A base row is no other session's, and no remote's.                      *)
LEMMA BaseIsOwn ==
  ASSUME TypeOK, Numbered, NEW s \in Sessions, NEW t \in Sessions, Present(s), Present(t),
         NEW i \in 0..Len0(t), RowAt(t, i) = Base(num[s])
  PROVE  s = t /\ i = 0
<1>1. UserOf[t] # "sess"
  BY SessionAssumption DEF SessionAssumption
<1>2. i = 0
  BY <1>1 DEF RowAt, Base, Canon
<1>3. num[t] = num[s]
  BY <1>2 DEF RowAt, Base
<1> QED BY <1>2, <1>3 DEF Numbered

LEMMA NothingOpenYet ==
  ASSUME ConnShape, NEW s \in Sessions, pc[s] \notin {"running", "final", "done"}
  PROVE  Cardinality(OpenOf(s)) = 0
<1>1. OpenOf(s) = {}
  BY DEF ConnShape, OpenOf, Carried
<1> QED BY <1>1, FS_EmptySet

(* Steps of handlers and of the process that carry no connection.          *)
LEMMA UncountedStep ==
  ASSUME CountInv, UNCHANGED <<up, sessCount, num, proxied>>,
         \A s \in Sessions : bind'[s] = "up" => pc'[s] = "running",
         \A s \in Sessions : pc[s] \in {"running", "final", "done"} => pc'[s] \in {"running", "final", "done"},
         \A s \in Sessions : pc'[s] \notin {"idle", "done"} => pc[s] \notin {"idle", "done"},
         fails' = 0 => fails = 0 /\ \A s \in Sessions :
           Counting(s)' /\ Base(num[s]) \in DOMAIN rows' =>
             \/ /\ Counting(s) /\ Base(num[s]) \in DOMAIN rows
                /\ rows'[Base(num[s])].conns = rows[Base(num[s])].conns
             \/ rows'[Base(num[s])].conns = Cardinality(OpenOf(s))
  PROVE  CountInv'
<1>1. ConnShape'
  BY DEF CountInv, ConnShape, Carried, proxied
<1>2. \A s \in Sessions : Present(s)' => Present(s)
  BY DEF Present, Carried, proxied
<1>3. Numbered'
  BY <1>2 DEF CountInv, Numbered
<1>4. \A s \in Sessions : OpenOf(s)' = OpenOf(s) /\ Base(num[s])' = Base(num[s])
  BY DEF OpenOf, Base, proxied
<1>5. CountsRight'
  BY <1>4 DEF CountInv, CountsRight
<1> QED BY <1>1, <1>3, <1>5 DEF CountInv

(* The statements that count nothing leave the counts of the rows they     *)
(* leave.                                                                  *)
ConnsKept ==
  \A x \in DOMAIN rows' : x \in DOMAIN rows /\ rows'[x].conns = rows[x].conns

LEMMA QuietStatements ==
  /\ \A R : Exec(ClosedOpen(R)) /\ fails' = 0 => ConnsKept
  /\ \A R : TypeOK /\ ExecCount(R, 0) /\ fails' = 0 => ConnsKept
  /\ rows' = WithoutClosed => ConnsKept
  /\ rows' = Aged => ConnsKept
  /\ UNCHANGED rows => ConnsKept
<1>0. \A a, b, c, d : Row(a, b, c, d).conns = d
  BY DEF Row
<1>1. ASSUME NEW R, Exec(ClosedOpen(R)), fails' = 0 PROVE ConnsKept
  BY <1>0, <1>1 DEF Exec, ClosedOpen, ConnsKept
<1>2. ASSUME NEW R, TypeOK, ExecCount(R, 0), fails' = 0 PROVE ConnsKept
  <2>1. rows' = Counted(R, 0)
    BY <1>2, SessionAssumption DEF ExecCount, TypeOK, SessionAssumption
  <2>2. \A x \in DOMAIN rows : rows[x].conns \in Int
    BY <1>2, RowType DEF TypeOK, IsTable
  <2> QED BY <1>0, <2>1, <2>2 DEF Counted, ConnsKept
<1>3. ASSUME rows' = WithoutClosed PROVE ConnsKept
  BY <1>3 DEF WithoutClosed, ConnsKept
<1>4. ASSUME rows' = Aged PROVE ConnsKept
  BY <1>0, <1>4 DEF Aged, ConnsKept
<1>5. ASSUME UNCHANGED rows PROVE ConnsKept
  BY <1>5 DEF ConnsKept
<1> QED BY <1>1, <1>2, <1>3, <1>4, <1>5

(* A handler that writes a row resets its count, which is right for its    *)
(* base row, and no other session's.                                       *)
LEMMA RowWritten ==
  ASSUME TypeOK, Shape, CountInv, NEW s \in Sessions,
         pc[s] \in {"create", "update", "final"},
         \A x \in DOMAIN rows' : x # RowAt(s, idx[s]) => x \in DOMAIN rows /\ rows'[x] = rows[x],
         RowAt(s, idx[s]) \in DOMAIN rows' => rows'[RowAt(s, idx[s])].conns = 0,
         \A t \in Sessions \ {s} : Counting(t)' => Counting(t),
         Counting(s)' => pc[s] # "final"
  PROVE  \A t \in Sessions :
           Counting(t)' /\ Base(num[t]) \in DOMAIN rows' =>
             \/ /\ Counting(t) /\ Base(num[t]) \in DOMAIN rows
                /\ rows'[Base(num[t])].conns = rows[Base(num[t])].conns
             \/ rows'[Base(num[t])].conns = Cardinality(OpenOf(t))
<1> SUFFICES ASSUME NEW t \in Sessions, Counting(t)', Base(num[t]) \in DOMAIN rows'
             PROVE  \/ /\ Counting(t) /\ Base(num[t]) \in DOMAIN rows
                       /\ rows'[Base(num[t])].conns = rows[Base(num[t])].conns
                    \/ rows'[Base(num[t])].conns = Cardinality(OpenOf(t))
  OBVIOUS
<1>1. idx[s] \in 0..Len0(s) /\ Present(s)
  BY DEF Shape, Opening, Present
<1>2. CASE t = s
  <2>1. pc[s] \in Opening
    BY <1>2 DEF Opening
  <2>2. CASE idx[s] = 0
    <3>1. Base(num[t]) = RowAt(s, idx[s])
      BY <1>2, <2>2 DEF RowAt
    <3>2. Cardinality(OpenOf(t)) = 0
      BY <1>2, <2>1, NothingOpenYet DEF CountInv, Opening
    <3> QED BY <3>1, <3>2
  <2>3. CASE idx[s] # 0
    <3>1. Base(num[t]) # RowAt(s, idx[s])
      BY <1>1, <1>2, <2>3, BaseIsOwn DEF CountInv
    <3>2. Counting(t)
      BY <1>1, <1>2, <2>1, <2>3 DEF Counting
    <3> QED BY <3>1, <3>2
  <2> QED BY <2>2, <2>3
<1>3. CASE t # s
  <2>1. Counting(t)
    BY <1>3
  <2>2. Present(t)
    BY <2>1 DEF Counting, Present, Opening
  <2>3. Base(num[t]) # RowAt(s, idx[s])
    BY <1>1, <1>3, <2>2, BaseIsOwn DEF CountInv
  <2> QED BY <2>1, <2>3
<1> QED BY <1>2, <1>3

(* The steps of a handler and of its goroutines after the handshake.       *)
LEMMA HandlerCounts ==
  ASSUME TypeOK, Shape, CountInv, NEW s \in Sessions, Handler(s) \/ Refuse(s) \/ BindEnds(s)
  PROVE  CountInv'
<1>0. /\ pc \in [Sessions -> PCs] /\ idx \in [Sessions -> Nat]
      /\ bind \in [Sessions -> {"off", "up", "ended"}] /\ IsTable(rows) /\ fails \in Nat
      /\ \A t \in Sessions : bind[t] = "up" => pc[t] = "running"
  BY SessionAssumption DEF TypeOK, SessionAssumption, CountInv, ConnShape
<1> DEFINE Same == \A t \in Sessions : Counting(t)' => Counting(t)
<1>1. ASSUME UNCHANGED <<up, sessCount, num, proxied>>, Same, fails' = 0 => fails = 0 /\ ConnsKept,
             \A t \in Sessions : bind'[t] = "up" => pc'[t] = "running",
             \A t \in Sessions : pc[t] \in {"running", "final", "done"} => pc'[t] \in {"running", "final", "done"},
             \A t \in Sessions : pc'[t] \notin {"idle", "done"} => pc[t] \notin {"idle", "done"}
      PROVE  CountInv'
  BY <1>1, UncountedStep DEF ConnsKept
<1>2. CASE CheckRemote(s) \/ Refuse(s) \/ Reply(s) \/ WaitReturns(s)
  <2>1. UNCHANGED <<up, sessCount, num, proxied, rows, fails, bind>>
    BY <1>2 DEF CheckRemote, Refuse, Reply, WaitReturns, sess, bounds
  <2>2. Same
    BY <1>0, <1>2 DEF CheckRemote, Refuse, Reply, WaitReturns, sess, Counting, Opening
  <2> QED BY <1>0, <1>1, <1>2, <2>1, <2>2, QuietStatements
          DEF CheckRemote, Refuse, Reply, WaitReturns, sess
<1>3. CASE CloseRow(s) \/ CreateRowFails(s)
  <2>1. UNCHANGED <<up, sessCount, num, proxied, bind, idx>>
    BY <1>3 DEF CloseRow, CreateRowFails, sess
  <2>2. fails' = 0 => fails = 0 /\ ConnsKept
    BY <1>0, <1>3, QuietStatements DEF CloseRow, CreateRowFails, Exec
  <2>3. Same
    BY <1>0, <1>3, <2>1 DEF CloseRow, CreateRowFails, Counting, Opening
  <2> QED BY <1>0, <1>1, <1>3, <2>1, <2>2, <2>3 DEF CloseRow, CreateRowFails
<1>4. CASE Listen(s) \/ ListenFails(s) \/ Serve(s) \/ CloseProxy(s) \/ ServeEnds(s) \/ BindEnds(s)
  <2>1. UNCHANGED <<up, sessCount, num, proxied, rows, fails, pc>>
    BY <1>4 DEF Listen, ListenFails, Serve, CloseProxy, ServeEnds, BindEnds, sess, bounds
  <2>2. \A t \in Sessions : bind'[t] = "up" => bind[t] = "up"
    BY <1>0, <1>4 DEF Listen, ListenFails, Serve, CloseProxy, ServeEnds, BindEnds, sess
  <2>3. \A t \in Sessions : idx'[t] = idx[t] \/ pc[t] = "running"
    BY <1>0, <1>4 DEF Listen, ListenFails, Serve, CloseProxy, ServeEnds, BindEnds, sess, Shape
  <2>4. Same
    BY <2>1, <2>3 DEF Counting
  <2> QED BY <1>0, <1>1, <2>1, <2>2, <2>4, QuietStatements
<1>5. CASE Heartbeat(s) \/ HeartbeatStops(s)
  <2>1. UNCHANGED <<up, sessCount, num, proxied, bind, idx, pc>>
    BY <1>5 DEF Heartbeat, HeartbeatStops
  <2>2. fails' = 0 => fails = 0 /\ ConnsKept
    BY <1>0, <1>5, QuietStatements DEF Heartbeat, HeartbeatStops, ExecCount, bounds
  <2>3. Same
    BY <2>1 DEF Counting
  <2> QED BY <1>0, <1>1, <2>1, <2>2, <2>3
<1>6. ASSUME pc[s] \in {"create", "update", "final"}, UNCHANGED <<up, sessCount, num, proxied>>,
             fails' = 0 => fails = 0 /\
               /\ \A x \in DOMAIN rows' : x # RowAt(s, idx[s]) => x \in DOMAIN rows /\ rows'[x] = rows[x]
               /\ RowAt(s, idx[s]) \in DOMAIN rows' => rows'[RowAt(s, idx[s])].conns = 0,
             \A t \in Sessions \ {s} : pc'[t] = pc[t] /\ idx'[t] = idx[t] /\ bind'[t] = bind[t],
             pc[s] # "final" => pc'[s] \in {"close", "running"} /\ (bind'[s] = "up" => pc'[s] = "running"),
             pc[s] = "final" => pc'[s] \in {"final", "done"} /\ bind'[s] = bind[s]
      PROVE  CountInv'
  <2>1. \A t \in Sessions \ {s} : Counting(t)' => Counting(t)
    BY <1>6 DEF Counting
  <2>2. Counting(s)' => pc[s] # "final"
    BY <1>6 DEF Counting, Opening
  <2> QED BY <1>0, <1>6, <2>1, <2>2, RowWritten, UncountedStep
<1>7. CASE CreateRow(s)
  <2>1. Created(RowAt(s, idx[s]), UserOf[s])[RowAt(s, idx[s])].conns = 0
    BY DEF Created, Row
  <2>2. /\ \A x \in DOMAIN rows' : x # RowAt(s, idx[s]) => x \in DOMAIN rows /\ rows'[x] = rows[x]
        /\ rows'[RowAt(s, idx[s])].conns = 0
    BY <1>7, <2>1 DEF CreateRow, Created
  <2>3. /\ \A t \in Sessions \ {s} : pc'[t] = pc[t] /\ idx'[t] = idx[t] /\ bind'[t] = bind[t]
        /\ pc'[s] \in {"close", "running"} /\ (bind'[s] = "up" => pc'[s] = "running")
    BY <1>0, <1>7 DEF CreateRow, RowDone
  <2> QED BY <1>6, <1>7, <2>2, <2>3 DEF CreateRow, bounds
<1>8. ASSUME NEW st, rows' = Updated(RowAt(s, idx[s]), st)
      PROVE  /\ \A x \in DOMAIN rows' : x # RowAt(s, idx[s]) => x \in DOMAIN rows /\ rows'[x] = rows[x]
             /\ RowAt(s, idx[s]) \in DOMAIN rows' => rows'[RowAt(s, idx[s])].conns = 0
  BY <1>8 DEF Updated, Row
<1>9. CASE UpdateRow(s)
  <2>1. fails' = 0 => fails = 0 /\ rows' = Updated(RowAt(s, idx[s]), "open")
    BY <1>0, <1>9 DEF UpdateRow, Exec
  <2>2. /\ \A t \in Sessions \ {s} : pc'[t] = pc[t] /\ idx'[t] = idx[t] /\ bind'[t] = bind[t]
        /\ pc'[s] \in {"close", "running"} /\ (bind'[s] = "up" => pc'[s] = "running")
    BY <1>0, <1>9 DEF UpdateRow, RowDone
  <2> QED BY <1>6, <1>8, <1>9, <2>1, <2>2 DEF UpdateRow
<1>10. CASE FinalUpdate(s)
  <2>1. fails' = 0 => fails = 0 /\ rows' = Updated(RowAt(s, idx[s]), FinalStatus(s))
    BY <1>0, <1>10 DEF FinalUpdate, Exec
  <2>2. /\ \A t \in Sessions \ {s} : pc'[t] = pc[t] /\ idx'[t] = idx[t] /\ bind'[t] = bind[t]
        /\ pc'[s] \in {"final", "done"} /\ bind'[s] = bind[s]
    BY <1>0, <1>10 DEF FinalUpdate
  <2> QED BY <1>6, <1>8, <1>10, <2>1, <2>2 DEF FinalUpdate
<1> QED BY <1>2, <1>3, <1>4, <1>5, <1>7, <1>9, <1>10 DEF Handler

(* A session that comes draws the next number.                             *)
LEMMA HandshakeCounts ==
  ASSUME TypeOK, CountInv, NEW s \in Sessions, Handshake(s)
  PROVE  CountInv'
<1>1. /\ pc[s] = "idle" /\ pc' = [pc EXCEPT ![s] = "validate"] /\ up /\ up' = up
      /\ sessCount \in Nat /\ sessCount' = sessCount + 1 /\ num' = [num EXCEPT ![s] = sessCount + 1]
      /\ pc \in [Sessions -> PCs] /\ num \in [Sessions -> Nat] /\ idx \in [Sessions -> Nat]
      /\ idx' = [idx EXCEPT ![s] = 1]
      /\ UNCHANGED <<bind, proxied, rows, fails>>
  BY DEF Handshake, TypeOK, bounds
<1>2. ConnShape'
  BY <1>1 DEF CountInv, ConnShape, Carried, proxied
<1>3. \A t \in Sessions \ {s} : Present(t)' => Present(t) /\ num'[t] = num[t]
  BY <1>1 DEF Present, Carried, proxied
<1>4. Numbered'
  <2>1. \A t \in Sessions \ {s} : Present(t)' => num'[t] <= sessCount /\ num'[t] # num'[s]
    BY <1>1, <1>3 DEF CountInv, Numbered
  <2> QED BY <1>1, <1>3, <2>1 DEF CountInv, Numbered
<1>5. \A t \in Sessions : OpenOf(t)' = OpenOf(t)
  BY <1>1 DEF OpenOf, proxied
<1>6. \A t \in Sessions : Counting(t)' => Counting(t) /\ Base(num[t])' = Base(num[t])
  BY <1>1 DEF Counting, Opening, Base
<1>7. CountsRight'
  BY <1>1, <1>5, <1>6 DEF CountInv, CountsRight
<1> QED BY <1>2, <1>4, <1>7 DEF CountInv

(* The steps of proxied connections.                                       *)
LEMMA AcceptCounts ==
  ASSUME TypeOK, CountInv, NEW c \in Conns, NEW s \in Sessions, Accept(c, s)
  PROVE  CountInv'
<1>1. /\ cst[c] = "none" /\ cst' = [cst EXCEPT ![c] = "accepted"] /\ pc[s] = "running"
      /\ \E p \in Ports : cof' = [cof EXCEPT ![c] = <<s, p>>]
      /\ UNCHANGED <<up, sessCount, pc, sess, rows, fails>>
      /\ cst \in [Conns -> {"none", "accepted", "open", "closed"}]
      /\ cof \in [Conns -> (Sessions \X Ports) \cup {NoOne}]
  BY DEF Accept, TypeOK, CountInv, ConnShape, bounds
<1>2. cof'[c][1] = s /\ cof'[c] \in Sessions \X Ports /\ \A d \in Conns \ {c} : cst'[d] = cst[d] /\ cof'[d] = cof[d]
  BY <1>1
<1>3. ConnShape'
  BY <1>1, <1>2 DEF CountInv, ConnShape, Carried, sess
<1>4. \A t \in Sessions : Present(t)' => Present(t)
  BY <1>1, <1>2 DEF Present, Carried
<1>5. Numbered'
  BY <1>1, <1>4 DEF CountInv, Numbered, sess
<1>6. \A t \in Sessions : OpenOf(t)' = OpenOf(t)
  BY <1>1, <1>2 DEF OpenOf
<1>7. CountsRight'
  BY <1>1, <1>6 DEF CountInv, CountsRight, Counting, Base, sess
<1> QED BY <1>3, <1>5, <1>7 DEF CountInv

(* The tap of a connection adds d to the rows of its own session.          *)
LEMMA TapCounts ==
  ASSUME TypeOK, CountInv, NEW c \in Conns, Carried(c), NEW d \in Int, NEW s, s = cof[c][1],
         ExecCount(TapRows(c), d), UNCHANGED <<up, sessCount, pc, sess, cof>>,
         \E st \in {"open", "closed"} : cst' = [cst EXCEPT ![c] = st],
         Cardinality(OpenOf(s)') = Cardinality(OpenOf(s)) + d
  PROVE  CountInv'
<1>1. /\ s \in Sessions /\ Present(s)
      /\ cst \in [Conns -> {"none", "accepted", "open", "closed"}]
      /\ \A e \in Conns : Carried(e)' => Carried(e)
      /\ \A e \in Conns \ {c} : cst'[e] = cst[e]
  BY DEF CountInv, ConnShape, Carried, Present, TypeOK
<1>2. ConnShape'
  BY <1>1 DEF CountInv, ConnShape, sess
<1>3. \A t \in Sessions : Present(t)' => Present(t)
  BY <1>1 DEF Present
<1>4. Numbered'
  BY <1>3 DEF CountInv, Numbered, sess
<1>5. \A t \in Sessions \ {s} : OpenOf(t)' = OpenOf(t)
  BY <1>1 DEF OpenOf
<1>6. ASSUME fails' = 0, NEW t \in Sessions, Counting(t), Base(num[t]) \in DOMAIN rows'
      PROVE  rows'[Base(num[t])].conns = Cardinality(OpenOf(t)')
  <2>1. fails = 0 /\ rows' = Counted(TapRows(c), d)
    BY <1>6, SessionAssumption DEF ExecCount, TypeOK, SessionAssumption
  <2>2. Base(num[t]) \in DOMAIN rows /\ rows[Base(num[t])].conns \in Int
    BY <1>6, <2>1, RowType DEF Counted, TypeOK, IsTable
  <2>3. rows[Base(num[t])].conns = Cardinality(OpenOf(t))
    BY <1>6, <2>1, <2>2 DEF CountInv, CountsRight
  <2>4. Present(t)
    BY <1>6 DEF Counting, Present, Opening
  <2>5. CASE t = s
    <3>1. Base(num[t]) \in TapRows(c)
      BY <2>5 DEF TapRows
    <3> QED BY <2>1, <2>2, <2>3, <2>5, <3>1 DEF Counted, Row
  <2>6. CASE t # s
    <3>1. num[t] # num[s]
      BY <1>1, <2>4, <2>6 DEF CountInv, Numbered
    <3>2. UserOf[s] # "sess"
      BY <1>1, SessionAssumption DEF SessionAssumption
    <3>3. Base(num[t]) \notin TapRows(c)
      BY <3>1, <3>2 DEF TapRows, Base, Canon
    <3> QED BY <1>5, <2>1, <2>2, <2>3, <2>6, <3>3 DEF Counted
  <2> QED BY <2>5, <2>6
<1>7. CountsRight'
  BY <1>6 DEF CountsRight, Counting, Base, sess
<1> QED BY <1>2, <1>4, <1>7 DEF CountInv

LEMMA ProxiedCounts ==
  ASSUME IsFiniteSet(Conns), TypeOK, CountInv, NEW c \in Conns, Proxied(c)
  PROVE  CountInv'
<1>1. CASE \E s \in Sessions : Accept(c, s)
  BY <1>1, AcceptCounts
<1> PICK s : s = cof[c][1]
  OBVIOUS
<1>2. IsFiniteSet(OpenOf(s)) /\ Cardinality(OpenOf(s)) \in Nat
  <2>1. OpenOf(s) \in SUBSET Conns
    BY DEF OpenOf
  <2> QED BY <2>1, FS_Subset, FS_CardinalityType
<1>3. CASE OnOpen(c)
  <2>1. OpenOf(s)' = OpenOf(s) \cup {c} /\ c \notin OpenOf(s)
    BY <1>3 DEF OnOpen, OpenOf, TypeOK
  <2>2. Cardinality(OpenOf(s)') = Cardinality(OpenOf(s)) + 1
    BY <1>2, <2>1, FS_AddElement
  <2>3. Carried(c) /\ ExecCount(TapRows(c), 1) /\ UNCHANGED <<up, sessCount, pc, sess, cof>>
        /\ cst' = [cst EXCEPT ![c] = "open"]
    BY <1>3 DEF OnOpen, Carried
  <2>4. 1 \in Int
    OBVIOUS
  <2> QED BY <2>2, <2>3, <2>4, TapCounts
<1>4. CASE OnClose(c)
  <2>1. OpenOf(s)' = OpenOf(s) \ {c} /\ c \in OpenOf(s)
    BY <1>4 DEF OnClose, OpenOf, TypeOK
  <2>2. Cardinality(OpenOf(s)') = Cardinality(OpenOf(s)) + (-1)
    BY <1>2, <2>1, FS_RemoveElement
  <2>3. Carried(c) /\ ExecCount(TapRows(c), -1) /\ UNCHANGED <<up, sessCount, pc, sess, cof>>
        /\ cst' = [cst EXCEPT ![c] = "closed"]
    BY <1>4 DEF OnClose, Carried
  <2>4. -1 \in Int
    OBVIOUS
  <2> QED BY <2>2, <2>3, <2>4, TapCounts
<1> QED BY <1>1, <1>3, <1>4 DEF Proxied

(* The rest of the process.  After a crash nobody is present.              *)
LEMMA ServerCounts ==
  ASSUME TypeOK, Shape, CountInv, Server
  PROVE  CountInv'
<1>0. pc \in [Sessions -> PCs] /\ IsTable(rows) /\ fails \in Nat
      /\ \A t \in Sessions : bind[t] = "up" => pc[t] = "running"
  BY SessionAssumption DEF TypeOK, SessionAssumption, CountInv, ConnShape
<1>1. CASE Reconcile \/ DeleteClosedTunnels \/ Collect \/ Tick
  <2>1. UNCHANGED <<up, sessCount, num, proxied, bind, idx, pc>>
    BY <1>1 DEF Reconcile, DeleteClosedTunnels, Collect, Tick, sess
  <2>2. fails' = 0 => fails = 0 /\ ConnsKept
    BY <1>0, <1>1, QuietStatements DEF Reconcile, DeleteClosedTunnels, Collect, Tick, Exec, bounds
  <2> QED BY <1>0, <2>1, <2>2, UncountedStep DEF ConnsKept, Counting
<1>2. CASE Crash
  <2>1. \A c \in Conns : ~Carried(c)'
    BY <1>2 DEF Crash, Carried
  <2>2. \A s \in Sessions : pc'[s] \in {"idle", "done"} /\ bind'[s] # "up"
    BY <1>2 DEF Crash
  <2> QED BY <2>1, <2>2 DEF CountInv, ConnShape, Numbered, CountsRight, Present, Counting, Opening
<1>3. CASE Start
  <2>1. \A s \in Sessions : ~Present(s)
    BY <1>3 DEF Start, CountInv, Numbered
  <2>2. \A s \in Sessions : ~Present(s)' /\ ~Counting(s)'
    BY <1>3, <2>1 DEF Start, Present, Counting, Carried, Opening, proxied
  <2>3. ConnShape'
    BY <1>3 DEF Start, CountInv, ConnShape, Carried, proxied, sess
  <2> QED BY <2>2, <2>3 DEF CountInv, Numbered, CountsRight
<1> QED BY <1>1, <1>2, <1>3 DEF Server

(* The base row of a session counts the proxied connections that its taps  *)
(* have opened and not closed, and no other's, while the statements        *)
(* succeed: however sessions end, rows are deleted, and restarts give      *)
(* their numbers again.                                                    *)
THEOREM BaseRowCounts ==
  ASSUME IsFiniteSet(Conns)
  PROVE  Spec => []BaseCountsConns
<1>1. Init => CountInv
  BY DEF Init, CountInv, ConnShape, Numbered, CountsRight, Carried, Present, Counting, Opening
<1>2. IInv /\ CountInv /\ [Next]_vars => CountInv'
  <2> SUFFICES ASSUME IInv, CountInv, [Next]_vars PROVE CountInv'
    OBVIOUS
  <2>1. TypeOK /\ Shape
    BY DEF IInv
  <2>2. CASE UNCHANGED vars
    BY <2>2 DEF vars, sess, proxied, bounds, CountInv, ConnShape, Numbered, CountsRight,
                Carried, Present, Counting, OpenOf, Base
  <2> QED BY <2>1, <2>2, HandlerCounts, HandshakeCounts, ProxiedCounts, ServerCounts DEF Next, Session
<1>3. CountInv => BaseCountsConns
  BY DEF CountInv, CountsRight, BaseCountsConns, Counting, OpenOf
<1> QED BY <1>1, <1>2, <1>3, Invariance, PTL DEF Spec
=============================================================================
