-------------------------- MODULE Listeners_proofs --------------------------
(***************************************************************************)
(* The listener manager, for any number of listeners, ports and requests,  *)
(* with and without AI generated answers, across restarts.                 *)
(***************************************************************************)
EXTENDS AIListeners, TLAPS

Positions == {"none", "listen", "save open", "save error", "serve", "done"}

(* A row has a port, and the ports of the rows differ.                     *)
RowsUnique ==
  /\ \A i \in Ids : rows[i] # "none" => port[i] \in Ports
  /\ \A i, j \in Ids :
       rows[i] # "none" /\ rows[j] # "none" /\ port[i] = port[j] => i = j

(* What a request's position says about the listener it is about.          *)
RequestShape(r) ==
  /\ req[r] = At(req[r].pc, req[r].id, req[r].arg)
  /\ req[r].pc # "idle" => req[r].id \in Ids
  /\ req[r].pc \notin {"idle", "regenerate"} => port[req[r].id] \in Ports
  /\ req[r].pc = "write" => req[r].arg \in Statuses
  /\ req[r].pc = "stopping" => req[r].id \in ended

RequestsOK ==
  /\ req = [r \in Requests |-> req[r]]
  /\ \A r \in Requests : RequestShape(r)

IInv ==
  /\ ListenersTypeOK /\ RowsUnique /\ RequestsOK
  /\ NoServerLost /\ OneListenerPerPort

-----------------------------------------------------------------------------
(* The parts a step disturbs: the servers, the rows and the requests.      *)

(* A step of the servers' goroutines keeps a listener whose context is not *)
(* done in its place, and gives a port to its own listener only.           *)
LEMMA ServerStepInv ==
  ASSUME IInv, NEW i \in Ids, ServerStep(i)
  PROVE  IInv'
<1> USE ListenersAssumption
<1>1. Save(i, "open") \/ Save(i, "error") => 
        /\ rows' \in [Ids -> Statuses \cup {"none"}]
        /\ \A j \in Ids : rows'[j] # "none" => rows[j] # "none"
  BY DEF Save, IInv, ListenersTypeOK, Statuses
<1>2. UNCHANGED <<port, items, lock, req>> /\ ended \subseteq ended'
  BY DEF ServerStep, Listen, ListenFails, SaveOpen, SaveError, ServeEnds, ServeFails, table
<1>3. /\ rows' \in [Ids -> Statuses \cup {"none"}]
      /\ \A j \in Ids : rows'[j] # "none" => rows[j] # "none"
  BY <1>1 DEF ServerStep, Listen, ListenFails, SaveOpen, SaveError, ServeEnds, ServeFails,
              table, IInv, ListenersTypeOK
<1>4. /\ pc' \in [Ids -> Positions]
      /\ \A j \in Ids : pc'[j] # pc[j] => j = i /\ pc[i] \notin {"none", "done"}
      /\ ended' \subseteq Ids
  <2>0. pc \in [Ids -> Positions] /\ ended \subseteq Ids
    BY DEF IInv, ListenersTypeOK, Positions
  <2>1. CASE Listen(i)        BY <2>0, <2>1 DEF Listen, Positions
  <2>2. CASE ListenFails(i)   BY <2>0, <2>2 DEF ListenFails, Positions
  <2>3. CASE SaveOpen(i)      BY <2>0, <2>3 DEF SaveOpen, Positions
  <2>4. CASE SaveError(i)     BY <2>0, <2>4 DEF SaveError, Positions
  <2>5. CASE ServeEnds(i)     BY <2>0, <2>5 DEF ServeEnds, Positions
  <2>6. CASE ServeFails(i)    BY <2>0, <2>6 DEF ServeFails, Positions
  <2> QED  BY <2>1, <2>2, <2>3, <2>4, <2>5, <2>6 DEF ServerStep
<1>5. /\ socket' \in [Ports -> Ids \cup {NoOne}]
      /\ \A p \in Ports : socket'[p] # NoOne => port[socket'[p]] = p
  <2>0. /\ socket \in [Ports -> Ids \cup {NoOne}] /\ NoOne \notin Ids
        /\ \A p \in Ports : socket[p] # NoOne => port[socket[p]] = p
    BY DEF IInv, ListenersTypeOK
  <2>1. CASE Listen(i)
    BY <2>0, <2>1 DEF Listen
  <2>2. CASE ListenFails(i) \/ SaveOpen(i) \/ SaveError(i)
    BY <2>0, <2>2 DEF ListenFails, SaveOpen, SaveError
  <2>3. CASE ServeEnds(i) \/ ServeFails(i)
    BY <2>0, <2>3 DEF ServeEnds, ServeFails, Freed
  <2> QED  BY <2>1, <2>2, <2>3 DEF ServerStep
<1>6. ListenersTypeOK'
  BY <1>2, <1>3, <1>4, <1>5 DEF IInv, ListenersTypeOK, Positions
<1>7. RowsUnique'
  BY <1>2, <1>3 DEF IInv, RowsUnique
<1>8. RequestsOK'
  BY <1>2 DEF IInv, RequestsOK, RequestShape
<1>9. NoServerLost'
  BY <1>2, <1>4 DEF IInv, NoServerLost
<1>10. OneListenerPerPort'
  BY <1>2 DEF IInv, OneListenerPerPort
<1> QED
  BY <1>6, <1>7, <1>8, <1>9, <1>10 DEF IInv

-----------------------------------------------------------------------------
(* The parts of the invariant a request disturbs.                          *)

(* A request moves on, and nothing but its own entry changes.              *)
LEMMA Moves ==
  ASSUME RequestsOK, NEW r \in Requests, NEW where, req' = [req EXCEPT ![r].pc = where]
  PROVE  /\ req' = [q \in Requests |-> req'[q]]
         /\ req'[r] = At(where, req[r].id, req[r].arg)
         /\ req'[r].pc = where /\ req'[r].id = req[r].id /\ req'[r].arg = req[r].arg
         /\ \A q \in Requests \ {r} : req'[q] = req[q]
BY DEF RequestsOK, RequestShape, At

(* The request table after one request has changed.                        *)
LEMMA Replaced ==
  ASSUME RequestsOK, NEW r \in Requests, NEW new, req' = [req EXCEPT ![r] = new]
  PROVE  /\ req' = [q \in Requests |-> req'[q]]
         /\ req'[r] = new
         /\ \A q \in Requests \ {r} : req'[q] = req[q]
BY DEF RequestsOK, RequestShape

(* Idle requests owe nothing.                                              *)
LEMMA IdleShape ==
  /\ Idle = At(Idle.pc, Idle.id, Idle.arg)
  /\ Idle.pc = "idle"
BY DEF Idle, At

(* An UPDATE adds no row, and writes a status.                             *)
LEMMA SaveRow ==
  ASSUME IInv, NEW i, NEW status \in Statuses, Save(i, status)
  PROVE  /\ rows' \in [Ids -> Statuses \cup {"none"}]
         /\ \A j \in Ids : rows'[j] # "none" => rows[j] # "none"
BY DEF Save, IInv, ListenersTypeOK, Statuses

(* Requests that leave the manager, its mutex and the ports alone.         *)
LEMMA OnlyRows ==
  ASSUME IInv, NEW r \in Requests,
         UNCHANGED <<port, manager, lock>>,
         rows' \in [Ids -> Statuses \cup {"none"}],
         \A j \in Ids : rows'[j] # "none" => rows[j] # "none",
         req' = [q \in Requests |-> req'[q]],
         \A q \in Requests \ {r} : req'[q] = req[q],
         RequestShape(r)', req[r].pc # "stopping", req'[r].pc # "stopping"
  PROVE  IInv'
<1>1. ListenersTypeOK'
  BY DEF IInv, ListenersTypeOK, manager
<1>2. RowsUnique'
  BY DEF IInv, RowsUnique
<1>3. RequestsOK'
  BY DEF IInv, RequestsOK, RequestShape, manager
<1>4. NoServerLost' /\ OneListenerPerPort'
  BY DEF IInv, NoServerLost, OneListenerPerPort, manager
<1> QED
  BY <1>1, <1>2, <1>3, <1>4 DEF IInv

-----------------------------------------------------------------------------
(* The requests, one lemma for each that does more than write a row.       *)

(* An id is given a port no row has; nothing refers to it before.          *)
LEMMA InsertInv ==
  ASSUME IInv, NEW r \in Requests, NEW i \in Ids, NEW p \in Ports,
         NEW next, next \notin {"write", "stopping", "idle"}, Insert(r, i, p, next)
  PROVE  IInv'
<1> USE ListenersAssumption
<1>1. /\ port[i] = NoOne /\ port' = [port EXCEPT ![i] = p]
      /\ rows' = [rows EXCEPT ![i] = "closed"]
      /\ \A j \in Ids : rows[j] # "none" => port[j] # p
      /\ req' = [req EXCEPT ![r] = At(next, i, 0)] /\ req[r] = Idle
      /\ UNCHANGED <<items, pc, ended, socket, lock>>
  BY DEF Insert, Arrives, manager
<1>2. /\ rows \in [Ids -> Statuses \cup {"none"}] /\ port \in [Ids -> Ports \cup {NoOne}]
      /\ i \notin items /\ \A q \in Ports : socket[q] # i
  BY <1>1 DEF IInv, ListenersTypeOK
<1>3. /\ rows' \in [Ids -> Statuses \cup {"none"}] /\ port' \in [Ids -> Ports \cup {NoOne}]
      /\ port'[i] = p /\ \A j \in Ids \ {i} : port'[j] = port[j] /\ rows'[j] = rows[j]
  BY <1>1, <1>2 DEF Statuses
<1>4. /\ req' = [q \in Requests |-> req'[q]] /\ req'[r] = At(next, i, 0)
      /\ \A q \in Requests \ {r} : req'[q] = req[q]
  BY <1>1, Replaced DEF IInv
<1>5. req'[r].pc = next /\ req'[r].id = i /\ req'[r].arg = 0
  BY <1>4 DEF At
<1>6. lock # r
  BY <1>1, IdleShape DEF IInv, ListenersTypeOK
<1>7. ListenersTypeOK'
  <2>1. \A q \in Requests : req'[q].pc = "stopping" <=> lock' = q
    BY <1>1, <1>4, <1>5, <1>6 DEF IInv, ListenersTypeOK
  <2>2. items' \subseteq {j \in Ids : port'[j] # NoOne}
    BY <1>1, <1>2, <1>3 DEF IInv, ListenersTypeOK
  <2>3. ASSUME NEW q \in Ports, socket'[q] # NoOne
        PROVE  port'[socket'[q]] = q
    <3>1. socket[q] \in Ids \ {i} /\ port[socket[q]] = q
      BY <1>1, <1>2, <2>3 DEF IInv, ListenersTypeOK
    <3> QED
      BY <1>1, <1>3, <3>1
  <2> QED
    BY <1>1, <1>3, <2>1, <2>2, <2>3 DEF IInv, ListenersTypeOK
<1>8. RowsUnique'
  BY <1>1, <1>2, <1>3 DEF IInv, RowsUnique
<1>9. RequestsOK'
  <2>1. RequestShape(r)'
    BY <1>1, <1>3, <1>4, <1>5 DEF RequestShape
  <2>2. \A q \in Requests \ {r} : RequestShape(q)'
    BY <1>1, <1>2, <1>3, <1>4 DEF IInv, RequestsOK, RequestShape
  <2> QED
    BY <1>4, <2>1, <2>2 DEF RequestsOK
<1>10. NoServerLost'
  BY <1>1 DEF IInv, NoServerLost
<1>11. OneListenerPerPort'
  <2>1. \A j \in items : port'[j] = port[j]
    BY <1>2, <1>3 DEF IInv, ListenersTypeOK
  <2> QED
    BY <1>1, <2>1 DEF IInv, OneListenerPerPort
<1> QED
  BY <1>7, <1>8, <1>9, <1>10, <1>11 DEF IInv

(* The new listener's port is not the port of a listener of the manager.   *)
LEMMA StartInv ==
  ASSUME IInv, NEW r \in Requests, StartListener(r)
  PROVE  IInv'
<1> DEFINE i == req[r].id
<1>1. /\ req[r].pc = "start" /\ lock = NoOne
      /\ \A j \in items : port[j] # port[i]
      /\ items' = items \cup {i} /\ pc' = [pc EXCEPT ![i] = "listen"]
      /\ req' = [req EXCEPT ![r] = Idle]
      /\ UNCHANGED <<rows, port, ended, socket, lock>>
  BY DEF StartListener, PortInUse, Ends, table
<1>2. i \in Ids /\ port[i] \in Ports
  BY <1>1 DEF IInv, RequestsOK, RequestShape
<1>3. /\ req' = [q \in Requests |-> req'[q]] /\ req'[r] = Idle
      /\ \A q \in Requests \ {r} : req'[q] = req[q]
  BY <1>1, Replaced DEF IInv
<1>4. req'[r].pc = "idle"
  BY <1>3, IdleShape
<1>5. ListenersTypeOK'
  <2>1. pc' \in [Ids -> Positions]
    BY <1>1 DEF IInv, ListenersTypeOK, Positions
  <2>2. items' \subseteq {j \in Ids : port'[j] # NoOne}
    BY <1>1, <1>2, ListenersAssumption DEF IInv, ListenersTypeOK
  <2>3. \A q \in Requests : req'[q].pc = "stopping" <=> lock' = q
    BY <1>1, <1>3, <1>4 DEF IInv, ListenersTypeOK
  <2> QED
    BY <1>1, <2>1, <2>2, <2>3 DEF IInv, ListenersTypeOK, Positions
<1>6. RowsUnique'
  BY <1>1 DEF IInv, RowsUnique
<1>7. RequestsOK'
  <2>1. RequestShape(r)'
    BY <1>3, <1>4, IdleShape DEF RequestShape
  <2> QED
    BY <1>1, <1>3, <2>1 DEF IInv, RequestsOK, RequestShape
<1>8. NoServerLost'
  BY <1>1 DEF IInv, NoServerLost, ListenersTypeOK
<1>9. OneListenerPerPort'
  BY <1>1 DEF IInv, OneListenerPerPort
<1> QED
  BY <1>5, <1>6, <1>7, <1>8, <1>9 DEF IInv

(* The context is cancelled before the row and the map change.             *)
LEMMA StopInv ==
  ASSUME IInv, NEW r \in Requests, StopListener(r)
  PROVE  IInv'
<1>1. /\ req[r].pc = "stop" /\ lock = NoOne /\ req[r].id \in items
      /\ lock' = r /\ ended' = ended \cup {req[r].id}
      /\ req' = [req EXCEPT ![r].pc = "stopping"]
      /\ UNCHANGED <<rows, port, items, pc, socket>>
  BY DEF StopListener, Goes, table
<1>2. /\ req' = [q \in Requests |-> req'[q]]
      /\ req'[r] = At("stopping", req[r].id, req[r].arg)
      /\ req'[r].pc = "stopping" /\ req'[r].id = req[r].id /\ req'[r].arg = req[r].arg
      /\ \A q \in Requests \ {r} : req'[q] = req[q]
  BY <1>1, Moves DEF IInv
<1>3. req[r].id \in Ids /\ port[req[r].id] \in Ports
  BY <1>1 DEF IInv, RequestsOK, RequestShape
<1>4. ListenersTypeOK'
  <2>1. \A q \in Requests : req'[q].pc = "stopping" <=> lock' = q
    BY <1>1, <1>2, ListenersAssumption DEF IInv, ListenersTypeOK
  <2> QED
    BY <1>1, <1>3, <2>1 DEF IInv, ListenersTypeOK
<1>5. RowsUnique'
  BY <1>1 DEF IInv, RowsUnique
<1>6. RequestsOK'
  <2>1. RequestShape(r)'
    BY <1>1, <1>2, <1>3 DEF RequestShape
  <2>2. \A q \in Requests \ {r} : RequestShape(q)'
    BY <1>1, <1>2 DEF IInv, RequestsOK, RequestShape
  <2> QED
    BY <1>2, <2>1, <2>2 DEF RequestsOK
<1>7. NoServerLost' /\ OneListenerPerPort'
  BY <1>1 DEF IInv, NoServerLost, OneListenerPerPort
<1> QED
  BY <1>4, <1>5, <1>6, <1>7 DEF IInv

(* What leaves the map has a context that is done.                         *)
LEMMA StoppedInv ==
  ASSUME IInv, NEW r \in Requests, Stopped(r)
  PROVE  IInv'
<1>1. /\ req[r].pc = "stopping" /\ Save(req[r].id, "closed")
      /\ items' = items \ {req[r].id} /\ lock' = NoOne
      /\ req' = [req EXCEPT ![r].pc = "drop"]
      /\ UNCHANGED <<port, pc, ended, socket>>
  BY DEF Stopped, Goes
<1>2. /\ req' = [q \in Requests |-> req'[q]]
      /\ req'[r] = At("drop", req[r].id, req[r].arg)
      /\ req'[r].pc = "drop" /\ req'[r].id = req[r].id /\ req'[r].arg = req[r].arg
      /\ \A q \in Requests \ {r} : req'[q] = req[q]
  BY <1>1, Moves DEF IInv
<1>3. req[r].id \in Ids /\ port[req[r].id] \in Ports /\ req[r].id \in ended /\ lock = r
  BY <1>1 DEF IInv, RequestsOK, RequestShape, ListenersTypeOK
<1>4. /\ rows' \in [Ids -> Statuses \cup {"none"}]
      /\ \A j \in Ids : rows'[j] # "none" => rows[j] # "none"
  BY <1>1, <1>3, SaveRow DEF Statuses
<1>5. ListenersTypeOK'
  <2>1. \A q \in Requests : req'[q].pc = "stopping" <=> lock' = q
    BY <1>1, <1>2, <1>3, ListenersAssumption DEF IInv, ListenersTypeOK
  <2> QED
    BY <1>1, <1>4, <2>1 DEF IInv, ListenersTypeOK
<1>6. RowsUnique'
  BY <1>1, <1>4 DEF IInv, RowsUnique
<1>7. RequestsOK'
  <2>1. RequestShape(r)'
    BY <1>1, <1>2, <1>3 DEF RequestShape
  <2>2. \A q \in Requests \ {r} : RequestShape(q)'
    BY <1>1, <1>2 DEF IInv, RequestsOK, RequestShape
  <2> QED
    BY <1>2, <2>1, <2>2 DEF RequestsOK
<1>8. NoServerLost' /\ OneListenerPerPort'
  BY <1>1, <1>3 DEF IInv, NoServerLost, OneListenerPerPort
<1> QED
  BY <1>5, <1>6, <1>7, <1>8 DEF IInv

(* A restart runs the rows that said closed or open, whose ports differ.   *)
LEMMA RestartInv ==
  ASSUME IInv, Restart
  PROVE  IInv'
<1> DEFINE kept == {i \in Ids : rows[i] \in {"closed", "open"}}
<1>1. /\ rows' = [i \in Ids |-> IF i \in kept THEN "closed" ELSE rows[i]]
      /\ items' = kept
      /\ pc' = [i \in Ids |-> IF i \in kept THEN "listen" ELSE "none"]
      /\ ended' = {} /\ lock' = NoOne /\ port' = port
      /\ socket' = [p \in Ports |-> NoOne]
      /\ req' = [r \in Requests |-> Idle]
  BY DEF Restart
<1>2. \A r \in Requests : req'[r] = Idle /\ req'[r].pc = "idle"
  BY <1>1, IdleShape
<1>3. /\ \A i \in kept : rows[i] # "none" /\ port[i] \in Ports
      /\ \A i \in Ids : rows'[i] # "none" => rows[i] # "none"
  BY <1>1 DEF IInv, RowsUnique
<1>4. ListenersTypeOK'
  <2>1. rows' \in [Ids -> Statuses \cup {"none"}]
    BY <1>1 DEF IInv, ListenersTypeOK, Statuses
  <2>2. items' \subseteq {i \in Ids : port'[i] # NoOne} /\ ended' \subseteq Ids
    BY <1>1, <1>3, ListenersAssumption
  <2>3. pc' \in [Ids -> Positions]
    BY <1>1 DEF Positions
  <2>4. /\ socket' \in [Ports -> Ids \cup {NoOne}]
        /\ \A p \in Ports : socket'[p] # NoOne => port'[socket'[p]] = p
    BY <1>1
  <2>5. lock' \in Requests \cup {NoOne}
        /\ \A r \in Requests : req'[r].pc = "stopping" <=> lock' = r
    BY <1>1, <1>2, ListenersAssumption
  <2> QED
    BY <1>1, <2>1, <2>2, <2>3, <2>4, <2>5 DEF IInv, ListenersTypeOK, Positions
<1>5. RowsUnique'
  BY <1>1, <1>3 DEF IInv, RowsUnique
<1>6. RequestsOK'
  <2>1. \A r \in Requests : RequestShape(r)'
    BY <1>2, IdleShape DEF RequestShape
  <2> QED
    BY <1>1, <2>1 DEF RequestsOK
<1>7. NoServerLost'
  BY <1>1 DEF NoServerLost
<1>8. OneListenerPerPort'
  BY <1>1, <1>3 DEF IInv, RowsUnique, OneListenerPerPort
<1> QED
  BY <1>4, <1>5, <1>6, <1>7, <1>8 DEF IInv

-----------------------------------------------------------------------------
(* All steps.                                                              *)

(* A request that arrives keeps the invariant.                             *)
LEMMA ArrivesInv ==
  ASSUME IInv, NEW r \in Requests, NEW new, Arrives(r), req' = [req EXCEPT ![r] = new],
         new = At(new.pc, new.id, new.arg), new.id \in Ids,
         new.pc # "idle", new.pc # "stopping",
         new.pc = "write" => new.arg \in Statuses,
         new.pc # "regenerate" => rows[new.id] # "none",
         UNCHANGED <<table, manager, lock>>
  PROVE  IInv'
<1>1. req[r].pc = "idle" /\ UNCHANGED <<rows, port, manager, lock>>
  BY IdleShape DEF Arrives, table
<1>2. /\ req' = [q \in Requests |-> req'[q]] /\ req'[r] = new
      /\ \A q \in Requests \ {r} : req'[q] = req[q]
  BY Replaced DEF IInv
<1>3. RequestShape(r)'
  BY <1>1, <1>2 DEF RequestShape, IInv, RowsUnique
<1> QED
  BY <1>1, <1>2, <1>3, OnlyRows DEF IInv, ListenersTypeOK

(* The fields of a request.                                                *)
LEMMA AtFields ==
  \A where, id, arg :
    LET new == At(where, id, arg) IN
    new.pc = where /\ new.id = id /\ new.arg = arg /\ new = At(new.pc, new.id, new.arg)
BY DEF At

(* A request that moves on, and writes or deletes its row at most.         *)
LEMMA GoesInv ==
  ASSUME IInv, NEW r \in Requests, NEW where, Goes(r, where),
         req[r].pc \notin {"idle", "regenerate", "stopping"}, where \notin {"write", "stopping"},
         UNCHANGED <<port, manager, lock>>,
         rows' \in [Ids -> Statuses \cup {"none"}],
         \A j \in Ids : rows'[j] # "none" => rows[j] # "none"
  PROVE  IInv'
<1>1. /\ req' = [q \in Requests |-> req'[q]]
      /\ req'[r] = At(where, req[r].id, req[r].arg)
      /\ req'[r].pc = where /\ req'[r].id = req[r].id /\ req'[r].arg = req[r].arg
      /\ \A q \in Requests \ {r} : req'[q] = req[q]
  BY Moves DEF Goes, IInv
<1>2. req[r].id \in Ids /\ port[req[r].id] \in Ports
  BY DEF IInv, RequestsOK, RequestShape
<1>3. RequestShape(r)'
  BY <1>1, <1>2 DEF RequestShape
<1> QED
  BY <1>1, <1>3, OnlyRows

(* A request that ends keeps the invariant.                                *)
LEMMA EndsInv ==
  ASSUME IInv, NEW r \in Requests, Ends(r), req[r].pc # "stopping",
         UNCHANGED <<port, manager, lock>>,
         rows' \in [Ids -> Statuses \cup {"none"}],
         \A j \in Ids : rows'[j] # "none" => rows[j] # "none"
  PROVE  IInv'
<1>1. /\ req' = [q \in Requests |-> req'[q]] /\ req'[r] = Idle
      /\ \A q \in Requests \ {r} : req'[q] = req[q]
  BY Replaced DEF Ends, IInv
<1>2. RequestShape(r)' /\ req'[r].pc # "stopping"
  BY <1>1, IdleShape DEF RequestShape
<1> QED
  BY <1>1, <1>2, OnlyRows

(* Creates, updates and deletes arrive.                                    *)
LEMMA RequestArrivesInv ==
  ASSUME IInv, NEW r \in Requests, RequestArrives(r)
  PROVE  IInv'
<1>1. CASE CreateListener(r)
  BY <1>1, InsertInv DEF CreateListener
<1>2. CASE ReadForUpdate(r)
  <2>1. PICK i \in Ids : /\ rows[i] # "none"
                         /\ \E s \in Wanted \cup {rows[i]} :
                              req' = [req EXCEPT ![r] = At("write", i, s)]
    BY <1>2 DEF ReadForUpdate
  <2>2. PICK s \in Wanted \cup {rows[i]} : req' = [req EXCEPT ![r] = At("write", i, s)]
    BY <2>1
  <2>3. s \in Statuses
    BY <2>1, ListenersAssumption DEF IInv, ListenersTypeOK
  <2>4. PICK new : new = At("write", i, s)
    OBVIOUS
  <2>5. /\ new = At(new.pc, new.id, new.arg)
        /\ new.pc = "write" /\ new.id = i /\ new.arg = s
    BY <2>4, AtFields
  <2> QED
    BY <1>2, <2>1, <2>2, <2>3, <2>4, <2>5, ArrivesInv DEF ReadForUpdate
<1>3. CASE ReadForDelete(r)
  <2>1. PICK i \in Ids : rows[i] # "none" /\ req' = [req EXCEPT ![r] = At("stop", i, 0)]
    BY <1>3 DEF ReadForDelete
  <2>2. PICK new : new = At("stop", i, 0)
    OBVIOUS
  <2>3. new = At(new.pc, new.id, new.arg) /\ new.pc = "stop" /\ new.id = i
    BY <2>2, AtFields
  <2> QED
    BY <1>3, <2>1, <2>2, <2>3, ArrivesInv DEF ReadForDelete
<1> QED
  BY <1>1, <1>2, <1>3 DEF RequestArrives

(* Every step of a request that has begun keeps the invariant.             *)
LEMMA RequestStepInv ==
  ASSUME IInv, NEW r \in Requests, RequestStep(r)
  PROVE  IInv'
<1>0. rows \in [Ids -> Statuses \cup {"none"}]
  BY DEF IInv, ListenersTypeOK
<1>1. CASE StartListener(r)
  BY <1>1, StartInv
<1>2. CASE StartRefused(r)
  BY <1>0, <1>2, GoesInv DEF StartRefused, table
<1>3. CASE MarkError(r)
  <2>1. req[r].id \in Ids /\ "error" \in Statuses
    BY <1>3 DEF MarkError, IInv, RequestsOK, RequestShape, Statuses
  <2> QED
    BY <1>3, <2>1, SaveRow, EndsInv DEF MarkError
<1>4. CASE WriteRow(r)
  <2>1. req[r].id \in Ids /\ req[r].arg \in Statuses
    BY <1>4 DEF WriteRow, IInv, RequestsOK, RequestShape
  <2> QED
    BY <1>4, <2>1, SaveRow, EndsInv DEF WriteRow
<1>5. CASE StopNotFound(r)
  BY <1>0, <1>5, GoesInv DEF StopNotFound, table
<1>6. CASE StopListener(r)
  BY <1>6, StopInv
<1>7. CASE Stopped(r)
  BY <1>7, StoppedInv
<1>8. CASE DeleteListener(r)
  <2>1. /\ rows' \in [Ids -> Statuses \cup {"none"}]
        /\ \A j \in Ids : rows'[j] # "none" => rows[j] # "none"
    BY <1>0, <1>8 DEF DeleteListener
  <2> QED
    BY <1>8, <2>1, EndsInv DEF DeleteListener
<1> QED
  BY <1>1, <1>2, <1>3, <1>4, <1>5, <1>6, <1>7, <1>8 DEF RequestStep

(* The versions and the generations touch rows and requests only.          *)
LEMMA AIStepInv ==
  ASSUME IInv, AIStep
  PROVE  IInv'
<1>0. rows \in [Ids -> Statuses \cup {"none"}]
  BY DEF IInv, ListenersTypeOK
<1>1. ASSUME UNCHANGED <<port, manager, lock, req>>,
             rows' \in [Ids -> Statuses \cup {"none"}],
             \A j \in Ids : rows'[j] # "none" => rows[j] # "none"
      PROVE  IInv'
  <2>1. ListenersTypeOK' /\ RowsUnique' /\ RequestsOK'
    BY <1>1 DEF IInv, ListenersTypeOK, RowsUnique, RequestsOK, RequestShape, manager
  <2>2. NoServerLost' /\ OneListenerPerPort'
    BY <1>1 DEF IInv, NoServerLost, OneListenerPerPort, manager
  <2> QED
    BY <2>1, <2>2 DEF IInv
<1>2. ASSUME UNCHANGED listenerVars  PROVE IInv'
  BY <1>0, <1>1, <1>2 DEF listenerVars, table
<1>3. ASSUME NEW v \in DOMAIN versions, GenerationStep(v)  PROVE IInv'
  <2>1. CASE OpenListener(v)
    <3>1. Save(versions[v].of, "open") /\ "open" \in Statuses
      BY <2>1 DEF OpenListener, Statuses
    <3>2. /\ rows' \in [Ids -> Statuses \cup {"none"}]
          /\ \A j \in Ids : rows'[j] # "none" => rows[j] # "none"
      BY <3>1, SaveRow
    <3> QED
      BY <1>1, <2>1, <3>2 DEF OpenListener
  <2> QED
    BY <1>2, <1>3, <2>1 DEF GenerationStep, ReadVersion, MarkGenerating, Answer,
       StoreResponses, StoreError, ActivateGenerated
<1>4. ASSUME NEW r \in Requests, CreateAIListener(r)  PROVE IInv'
  BY <1>4, InsertInv DEF CreateAIListener
<1>5. ASSUME NEW r \in Requests, CreateFirstVersion(r)  PROVE IInv'
  BY <1>0, <1>5, GoesInv DEF CreateFirstVersion, table
<1>6. ASSUME NEW r \in Requests, CreateVersion(r)  PROVE IInv'
  BY <1>0, <1>6, EndsInv DEF CreateVersion, table
<1>7. ASSUME NEW r \in Requests, ReadVersions(r)  PROVE IInv'
  <2>1. PICK i \in Ids : \E v \in Highest(VersionsOf(i)) :
          req' = [req EXCEPT ![r] = At("regenerate", i, versions[v].number + 1)]
    BY <1>7 DEF ReadVersions
  <2>2. PICK new, arg : /\ new = At("regenerate", i, arg)
                         /\ req' = [req EXCEPT ![r] = new]
    BY <2>1
  <2>3. new = At(new.pc, new.id, new.arg) /\ new.pc = "regenerate" /\ new.id = i
    BY <2>2, AtFields
  <2> QED
    BY <1>7, <2>2, <2>3, ArrivesInv DEF ReadVersions
<1>8. ASSUME NEW r \in Requests, ActivateVersion(r)  PROVE IInv'
  BY <1>0, <1>1, <1>8 DEF ActivateVersion, table
<1> QED
  BY <1>3, <1>4, <1>5, <1>6, <1>7, <1>8, RestartInv
     DEF AIStep, AIRequestArrives, AIRequestStep, RestartAll

(* Without rows, servers and requests the invariant holds.                 *)
THEOREM Initially == Init => IInv
<1> SUFFICES ASSUME ListenersInit  PROVE IInv
  BY DEF Init
<1>1. \A r \in Requests : req[r] = Idle /\ req[r].pc = "idle"
  BY IdleShape DEF ListenersInit
<1>2. ListenersTypeOK
  BY <1>1, ListenersAssumption DEF ListenersInit, ListenersTypeOK, Statuses
<1>3. RowsUnique /\ NoServerLost /\ OneListenerPerPort
  BY DEF ListenersInit, RowsUnique, NoServerLost, OneListenerPerPort
<1>4. RequestsOK
  <2>1. \A r \in Requests : RequestShape(r)
    BY <1>1, IdleShape DEF RequestShape
  <2> QED
    BY <2>1 DEF ListenersInit, RequestsOK
<1> QED
  BY <1>2, <1>3, <1>4 DEF IInv

(* Every step of a server, a request, a generation or a restart keeps the  *)
(* invariant.                                                              *)
THEOREM Inductive == IInv /\ [Next]_vars => IInv'
<1> SUFFICES ASSUME IInv, [Next]_vars  PROVE IInv'
  OBVIOUS
<1>1. CASE AIStep
  BY <1>1, AIStepInv
<1>2. CASE ListenersStep
  BY <1>2, ServerStepInv, RequestArrivesInv, RequestStepInv DEF ListenersStep
<1>3. CASE UNCHANGED vars
  <2>1. ListenersTypeOK' /\ RowsUnique' /\ RequestsOK'
    BY <1>3 DEF vars, listenerVars, table, manager,
                IInv, ListenersTypeOK, RowsUnique, RequestsOK, RequestShape
  <2>2. NoServerLost' /\ OneListenerPerPort'
    BY <1>3 DEF vars, listenerVars, table, manager, IInv, NoServerLost, OneListenerPerPort
  <2> QED
    BY <2>1, <2>2 DEF IInv
<1> QED
  BY <1>1, <1>2, <1>3 DEF Next

(* The inductive invariant, and what follows from it: the manager's types. *)
THEOREM Invariance == Spec => []IInv
<1> QED
  BY Initially, Inductive, PTL DEF Spec

(* Type correctness of the rows, the manager, the servers and the          *)
(* requests of the listeners, in every reachable state.                    *)
THEOREM ListenersTypeCorrect == Spec => []ListenersTypeOK
<1>1. IInv => ListenersTypeOK
  BY DEF IInv
<1> QED
  BY Invariance, <1>1, PTL

(* Whatever creates, deletes, failures and restarts interleave, a server   *)
(* that runs and was not stopped is in the manager's map: StopListener can *)
(* always reach it.                                                        *)
THEOREM ServersReachable == Spec => []NoServerLost
<1>1. IInv => NoServerLost
  BY DEF IInv
<1> QED
  BY Invariance, <1>1, PTL

(* The check of StartListener, under the manager's mutex, is enough: the   *)
(* listeners of the map have distinct ports, rows deleted or not.          *)
THEOREM PortsDistinct == Spec => []OneListenerPerPort
<1>1. IInv => OneListenerPerPort
  BY DEF IInv
<1> QED
  BY Invariance, <1>1, PTL
=============================================================================
