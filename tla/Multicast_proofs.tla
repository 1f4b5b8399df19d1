-------------------------- MODULE Multicast_proofs --------------------------
(***************************************************************************)
(* The endpoints and the requests to one of them, for any number of        *)
(* multicasts, ports, sessions, administrators and requests.               *)
(***************************************************************************)
EXTENDS MCMulticast, FiniteSetTheorems, TLAPS

-----------------------------------------------------------------------------
(* MulticastRequests.                                                      *)

CallPCs == {"new", "fan out", "wait", "count", "bytes", "uncount", "done"}
CallShape == mode \in Modes /\ call \in [Calls -> [mode : Modes, pc : CallPCs]]

(* The calls between their +1 and their -1.                                *)
Counted == {q \in Calls : call[q].pc \in {"bytes", "uncount"}}

(* What a copy, a Config or a failed statement puts into the row need not  *)
(* even be counts, but then it has drifted.                                *)
SettledCounts ==
  ~drift =>
    /\ counts \in [connections : Int, bytes : Int] /\ recorded \in Int
    /\ counts.connections = Cardinality(Counted)
    /\ counts.bytes = recorded

CountsInv == CallShape /\ SettledCounts

LEMMA CountedTyped ==
  ASSUME IsFiniteSet(Calls)
  PROVE  IsFiniteSet(Counted) /\ Cardinality(Counted) \in Nat
<1>1. Counted \in SUBSET Calls
  BY DEF Counted
<1> QED BY <1>1, FS_Subset, FS_CardinalityType

LEMMA CallMoves ==
  ASSUME CallShape, NEW q \in Calls, NEW from, NEW to \in CallPCs, HandlerGoes(q, from, to)
  PROVE  /\ call[q].pc = from /\ call'[q].pc = to
         /\ \A o \in Calls \ {q} : call'[o] = call[o]
         /\ call' \in [Calls -> [mode : Modes, pc : CallPCs]]
  BY DEF HandlerGoes, CallShape

(* A call that is not counted before or after, and a row left alone.       *)
LEMMA UncountedCall ==
  ASSUME CountsInv, UNCHANGED <<counts, drift, recorded, mode>>,
         call' \in [Calls -> [mode : Modes, pc : CallPCs]],
         \A o \in Calls : call'[o].pc \in {"bytes", "uncount"} <=> call[o].pc \in {"bytes", "uncount"}
  PROVE  CountsInv'
<1>1. Counted' = Counted
  BY DEF Counted
<1> QED BY <1>1 DEF CountsInv, CallShape, SettledCounts

LEMMA CountKeeps ==
  ASSUME IsFiniteSet(Calls), CountsInv, NEW q \in Calls, Count(q)
  PROVE  CountsInv'
<1>1. AfterCount(q) \in {"bytes", "uncount"} /\ AfterCount(q) \in CallPCs
  BY DEF AfterCount, CallPCs
<1>2. /\ call[q].pc = "count" /\ call'[q].pc \in {"bytes", "uncount"}
      /\ \A o \in Calls \ {q} : call'[o] = call[o]
      /\ call' \in [Calls -> [mode : Modes, pc : CallPCs]]
  BY <1>1, CallMoves DEF Count, CountsInv
<1>3. Cardinality(Counted') = Cardinality(Counted) + 1
  <2>1. Counted' = Counted \cup {q} /\ q \notin Counted
    BY <1>2 DEF Counted
  <2> QED BY <2>1, CountedTyped, FS_AddElement
<1>4. ~drift' => ~drift /\ counts' = [counts EXCEPT !.connections = @ + 1]
  BY DEF Count, Executes
<1>5. recorded' = recorded /\ mode' = mode
  BY DEF Count, endpointVars
<1>6. SettledCounts'
  BY <1>3, <1>4, <1>5 DEF CountsInv, SettledCounts
<1> QED BY <1>2, <1>5, <1>6 DEF CountsInv, CallShape

LEMMA AddBytesKeeps ==
  ASSUME CountsInv, NEW q \in Calls, AddBytes(q)
  PROVE  CountsInv'
<1>1. /\ call[q].pc = "bytes" /\ call'[q].pc = "uncount"
      /\ \A o \in Calls \ {q} : call'[o] = call[o]
      /\ call' \in [Calls -> [mode : Modes, pc : CallPCs]]
  BY CallMoves DEF AddBytes, CountsInv, CallPCs
<1>2. Counted' = Counted
  BY <1>1 DEF Counted
<1>3. ~drift' => ~drift /\ counts' = [counts EXCEPT !.bytes = @ + 1]
  BY DEF AddBytes, Executes
<1>4. recorded' = recorded + 1 /\ mode' = mode
  BY DEF AddBytes, endpointVars
<1>5. SettledCounts'
  BY <1>2, <1>3, <1>4 DEF CountsInv, SettledCounts
<1> QED BY <1>1, <1>4, <1>5 DEF CountsInv, CallShape

LEMMA UncountKeeps ==
  ASSUME IsFiniteSet(Calls), CountsInv, NEW q \in Calls, Uncount(q)
  PROVE  CountsInv'
<1>1. /\ call[q].pc = "uncount" /\ call'[q].pc = "done"
      /\ \A o \in Calls \ {q} : call'[o] = call[o]
      /\ call' \in [Calls -> [mode : Modes, pc : CallPCs]]
  BY CallMoves DEF Uncount, CountsInv, CallPCs
<1>2. Cardinality(Counted') = Cardinality(Counted) - 1
  <2>1. Counted' = Counted \ {q} /\ q \in Counted
    BY <1>1 DEF Counted
  <2> QED BY <2>1, CountedTyped, FS_RemoveElement
<1>3. ~drift' => ~drift /\ counts' = [counts EXCEPT !.connections = @ - 1]
  BY DEF Uncount, Executes
<1>4. recorded' = recorded /\ mode' = mode
  BY DEF Uncount, endpointVars
<1>5. SettledCounts'
  BY <1>2, <1>3, <1>4, CountedTyped DEF CountsInv, SettledCounts
<1> QED BY <1>1, <1>4, <1>5 DEF CountsInv, CallShape

LEMMA HandlerKeeps ==
  ASSUME IsFiniteSet(Calls), CountsInv, NEW q \in Calls, HandlerStep(q)
  PROVE  CountsInv'
<1>1. CASE Accept(q)
  <2>1. /\ call[q].pc = "new" /\ call' = [call EXCEPT ![q] = Handler(mode, "fan out")]
        /\ mode \in Modes /\ UNCHANGED <<counts, drift, recorded, mode>>
        /\ call \in [Calls -> [mode : Modes, pc : CallPCs]]
    BY <1>1 DEF Accept, endpointVars, CountsInv, CallShape
  <2>2. Handler(mode, "fan out") \in [mode : Modes, pc : CallPCs]
        /\ Handler(mode, "fan out").pc = "fan out"
    BY <2>1 DEF Handler, CallPCs
  <2>3. /\ call' \in [Calls -> [mode : Modes, pc : CallPCs]]
        /\ \A o \in Calls : call'[o].pc \in {"bytes", "uncount"} <=> call[o].pc \in {"bytes", "uncount"}
    BY <2>1, <2>2
  <2> QED BY <2>1, <2>3, UncountedCall
<1>2. ASSUME NEW from \in CallPCs, NEW to \in CallPCs, HandlerGoes(q, from, to),
             from \notin {"bytes", "uncount"}, to \notin {"bytes", "uncount"},
             UNCHANGED <<counts, drift, recorded, mode>>
      PROVE  CountsInv'
  BY <1>2, CallMoves, UncountedCall DEF CountsInv
<1>3. CASE FanOut(q)
  <2>1. \E to \in {"wait", "count", "done"} : HandlerGoes(q, "fan out", to)
    BY <1>3 DEF FanOut, HandlerGoes
  <2> QED BY <1>2, <1>3, <2>1 DEF FanOut, endpointVars, CallPCs
<1>4. CASE TimeOut(q) \/ TakeAnswer(q)
  BY <1>2, <1>4 DEF TimeOut, TakeAnswer, endpointVars, CallPCs
<1> QED BY <1>1, <1>3, <1>4, CountKeeps, AddBytesKeeps, UncountKeeps DEF HandlerStep

LEMMA EndProcessKeeps ==
  ASSUME CountsInv, EndProcess
  PROVE  CountsInv'
<1>1. /\ call' \in [Calls -> [mode : Modes, pc : CallPCs]] /\ Counted' = {}
      /\ mode' = mode /\ counts' = counts /\ recorded' = recorded
  BY DEF EndProcess, CountsInv, CallShape, Counted, CallPCs
<1>2. ~drift' => ~drift /\ Counted = {}
  BY DEF EndProcess, Counted
<1> QED BY <1>1, <1>2 DEF CountsInv, CallShape, SettledCounts

LEMMA RequestsKeep ==
  ASSUME IsFiniteSet(Calls), CountsInv, [RequestsNext]_requestVars
  PROVE  CountsInv'
<1>1. ASSUME UNCHANGED <<call, counts, drift, recorded>>, mode' \in Modes PROVE CountsInv'
  BY <1>1 DEF CountsInv, CallShape, SettledCounts, Counted
<1>2. mode \in Modes
  BY DEF CountsInv, CallShape
<1>3. ASSUME NEW c, WritesBack(c), UNCHANGED <<call, mode, recorded>> PROVE CountsInv'
  BY <1>3 DEF WritesBack, CountsInv, CallShape, SettledCounts, Counted
<1>4. CASE \E a \in Writers : WriteCounts(a)
  BY <1>3, <1>4 DEF WriteCounts
<1>5. CASE StopEndpoint \/ SaveGiven
  BY <1>3, <1>5 DEF StopEndpoint, SaveGiven, endpointVars
<1>6. CASE \E q \in Calls, s \in Members : Answered(q, s) \/ NotAnswered(q, s)
  BY <1>1, <1>2, <1>6 DEF Answered, NotAnswered, DeliveryEnds, endpointVars
<1>7. CASE (\E s \in Members : Join(s) \/ Leave(s)) \/ \E a \in Writers : ReadCounts(a)
  BY <1>1, <1>2, <1>7 DEF Join, Leave, ReadCounts
<1>8. CASE StartEndpoint
  BY <1>1, <1>8 DEF StartEndpoint
<1>9. CASE UNCHANGED requestVars
  BY <1>1, <1>2, <1>9 DEF requestVars
<1> QED BY <1>4, <1>5, <1>6, <1>7, <1>8, <1>9, HandlerKeeps, EndProcessKeeps DEF RequestsNext

(* However many requests overlap and whichever way each ends, the row of   *)
(* the endpoint counts those between their +1 and -1, and the bytes of     *)
(* those answered, unless a statement failed, the process ended in between *)
(* or a stale copy was written back (multicast_manager.go).                *)
THEOREM CountsAlwaysSettle ==
  ASSUME IsFiniteSet(Calls)
  PROVE  RequestsSpec => []CountsSettle
<1>1. RequestsInit => CountsInv
  <2> SUFFICES ASSUME RequestsInit PROVE CountsInv
    OBVIOUS
  <2>1. call \in [Calls -> [mode : Modes, pc : CallPCs]] /\ Counted = {}
    BY DEF RequestsInit, Handler, Modes, CallPCs, Counted
  <2> QED BY <2>1, FS_EmptySet DEF RequestsInit, CountsInv, CallShape, SettledCounts
<1>2. CountsInv => CountsSettle
  BY DEF CountsInv, SettledCounts, CountsSettle, Counted
<1> QED BY <1>1, <1>2, RequestsKeep, PTL DEF RequestsSpec

-----------------------------------------------------------------------------
(* Multicast.                                                              *)

ServerPCs == {"listen", "readOpen", "readError", "saveOpen", "saveError", "serve", "serving", "done"}
InstType == [id : Multicasts, cfg : RowType, pc : ServerPCs, closed : BOOLEAN,
             args : RowType \cup {NoOne}]
Starting == {"startNew", "start", "restart", "restartForget"}
Forgets == {"forget", "restartForget", "deleteForget"}
AdminPCs == {"idle", "write", "stop", "deleteStop", "delete"} \cup Starting \cup Forgets
RequestType == [pc : AdminPCs, id : Multicasts \cup {NoOne}, row : RowType \cup {NoOne}]

(* What a request has: one that starts the server has an enabled row.      *)
Asked(q) ==
  /\ q.pc # "idle" => q.id \in Multicasts
  /\ q.pc = "write" => q.row \in RowType
  /\ q.pc \in Starting => q.row \in RowType /\ q.row.enabled

Shape ==
  /\ rows \in [Multicasts -> RowType \cup {NoOne}]
  /\ items \in [Multicasts -> Instances \cup {NoOne}]
  /\ inst \in Seq(InstType)
  /\ \A i \in Instances : inst[i].pc \in {"saveOpen", "saveError"} => inst[i].args \in RowType
  /\ subs \in Seq(SUBSET Sessions) /\ Len(subs) = Len(inst)
  /\ lock \in Admins \cup {NoOne}
  /\ admin \in [Admins -> RequestType] /\ \A a \in Admins : Asked(admin[a])
  /\ session \in [Sessions -> {"new", "add", "bind", "subscriber", "bound", "done"}]
  /\ joined \in [Sessions -> Instances \cup {NoOne}]
  /\ socket \in [Ports -> Instances \cup Sessions \cup {NoOne}]
  /\ stopped \subseteq Multicasts

RowsApart == \A m, n \in Multicasts :
  m # n /\ rows[m] # NoOne /\ rows[n] # NoOne => rows[m].port # rows[n].port

(* The instances that run are those of their multicasts, on ports of their *)
(* own, and enabled but for the one being stopped, which is closed.        *)
ItemsNamed == \A m \in Running : inst[items[m]].id = m
PortsApart == \A m, n \in Running :
  m # n => inst[items[m]].cfg.port # inst[items[n]].cfg.port
Closing == lock # NoOne =>
  /\ admin[lock].pc \in Forgets
  /\ items[admin[lock].id] # NoOne /\ inst[items[admin[lock].id]].closed
Enabled == \A m \in Running :
  inst[items[m]].cfg.enabled \/ (lock # NoOne /\ admin[lock].id = m)

(* NoOrphanServer of every instance, whether it has its port or not yet.   *)
Known == \A i \in Instances : items[inst[i].id] = i \/ inst[i].closed \/ MovedAway(i)

(* What the removal of a subscriber relies on: a lookup by the port of its *)
(* session finds the instance it joined, if that still runs.               *)
JoinedAtPort == \A s \in Sessions : joined[s] # NoOne =>
  session[s] = "subscriber" /\ inst[joined[s]].cfg.port = PortOf[s]

Manager == ItemsNamed /\ PortsApart /\ Closing /\ Enabled /\ Known
Subscribers == JoinedAtPort /\ SubscribersExact
MulticastInv == Shape /\ RowsApart /\ Manager /\ Subscribers

LEMMA NoInstance == \A x : x \in Nat => x # NoOne /\ x \notin Sessions
  BY MulticastAssumption DEF MulticastAssumption

LEMMA InstUpdated ==
  ASSUME inst \in Seq(InstType), NEW i \in Instances, NEW x \in InstType,
         inst' = [inst EXCEPT ![i] = x]
  PROVE  /\ inst' \in Seq(InstType) /\ Len(inst') = Len(inst) /\ Instances' = Instances
         /\ inst'[i] = x /\ \A j \in Instances \ {i} : inst'[j] = inst[j]
  BY DEF Instances

(* One step of the server's goroutine of instance i.                       *)
SameServer(x, y) ==
  x.id = y.id /\ x.cfg.port = y.cfg.port /\ x.cfg.enabled = y.cfg.enabled /\ x.closed = y.closed

LEMMA ServerMoves ==
  ASSUME Shape, NEW i \in Instances, ServerStep(i)
  PROVE  \E x \in InstType :
           /\ inst' = [inst EXCEPT ![i] = x] /\ SameServer(x, inst[i])
           /\ x.pc \in {"saveOpen", "saveError"} => x.args \in RowType
<1>0. inst[i] \in InstType
  BY DEF Shape, Instances
<1>1. /\ inst[i].id \in Multicasts /\ inst[i].cfg \in RowType /\ inst[i].closed \in BOOLEAN
      /\ inst[i].args \in RowType \cup {NoOne}
      /\ inst[i].cfg.port \in Ports /\ inst[i].cfg.enabled \in BOOLEAN
  BY <1>0 DEF InstType, RowType
<1> DEFINE Next_(cfg, pc, args) ==
      [id |-> inst[i].id, cfg |-> cfg, pc |-> pc, closed |-> inst[i].closed, args |-> args]
<1> DEFINE Cfg(st) == [port |-> inst[i].cfg.port, enabled |-> inst[i].cfg.enabled, status |-> st]
<1>2. /\ Cfg("open") \in RowType /\ Cfg("error") \in RowType
      /\ [inst[i].cfg EXCEPT !.status = "open"] = Cfg("open")
      /\ [inst[i].cfg EXCEPT !.status = "error"] = Cfg("error")
  BY <1>1 DEF RowType
<1>3. ASSUME NEW cfg \in RowType, cfg.port = inst[i].cfg.port, cfg.enabled = inst[i].cfg.enabled,
             NEW pc \in ServerPCs, NEW args \in RowType \cup {NoOne},
             pc \in {"saveOpen", "saveError"} => args \in RowType,
             inst' = [inst EXCEPT ![i] = Next_(cfg, pc, args)]
      PROVE  \E x \in InstType :
               /\ inst' = [inst EXCEPT ![i] = x] /\ SameServer(x, inst[i])
               /\ x.pc \in {"saveOpen", "saveError"} => x.args \in RowType
  <2>1. Next_(cfg, pc, args) \in InstType
    BY <1>1, <1>3 DEF InstType
  <2>2. SameServer(Next_(cfg, pc, args), inst[i])
    BY <1>3 DEF SameServer
  <2> QED BY <1>3, <2>1, <2>2
<1> HIDE DEF Next_, Cfg
<1>4. CASE Listen(i)
  <2>1. \/ inst' = [inst EXCEPT ![i] = Next_(Cfg("open"), "readOpen", inst[i].args)]
        \/ inst' = [inst EXCEPT ![i] = Next_(Cfg("error"), "readError", inst[i].args)]
    BY <1>0, <1>2, <1>4 DEF Listen, InstType, Next_
  <2>2. \A st : Cfg(st).port = inst[i].cfg.port /\ Cfg(st).enabled = inst[i].cfg.enabled
    BY DEF Cfg
  <2> QED BY <1>1, <1>2, <1>3, <2>1, <2>2 DEF ServerPCs
<1>5. CASE ReadConfig(i)
  <2>1. \/ inst' = [inst EXCEPT ![i] = Next_(inst[i].cfg, "saveOpen", inst[i].cfg)]
        \/ inst' = [inst EXCEPT ![i] = Next_(inst[i].cfg, "saveError", inst[i].cfg)]
    BY <1>0, <1>5 DEF ReadConfig, InstType, Next_
  <2> QED BY <1>1, <1>3, <2>1 DEF ServerPCs
<1>6. CASE SaveConfig(i)
  <2>1. \/ inst' = [inst EXCEPT ![i] = Next_(inst[i].cfg, "serve", NoOne)]
        \/ inst' = [inst EXCEPT ![i] = Next_(inst[i].cfg, "done", NoOne)]
    BY <1>0, <1>6 DEF SaveConfig, InstType, Next_
  <2> QED BY <1>1, <1>3, <2>1 DEF ServerPCs
<1>7. CASE Serve(i)
  <2>1. \/ inst' = [inst EXCEPT ![i] = Next_(inst[i].cfg, "serving", inst[i].args)]
        \/ inst' = [inst EXCEPT ![i] = Next_(inst[i].cfg, "done", inst[i].args)]
    BY <1>0, <1>7 DEF Serve, InstType, Next_
  <2> QED BY <1>1, <1>3, <2>1 DEF ServerPCs
<1>8. CASE ServeFails(i)
  <2> DEFINE x == [inst[i] EXCEPT !.cfg = Cfg("error"), !.pc = "readError"]
  <2>1. x \in InstType /\ x.id = inst[i].id /\ x.cfg = Cfg("error") /\ x.closed = inst[i].closed
        /\ x.pc = "readError"
    BY <1>0, <1>2 DEF InstType, ServerPCs
  <2>2. SameServer(x, inst[i])
    BY <2>1 DEF SameServer, Cfg
  <2>3. inst' = [inst EXCEPT ![i] = x]
    BY <1>2, <1>8 DEF ServeFails
  <2> QED BY <2>1, <2>2, <2>3
<1> QED BY <1>4, <1>5, <1>6, <1>7, <1>8 DEF ServerStep

(* Steps that leave the manager's map, the identity of the instances, the  *)
(* mutex and the request that holds it alone.                              *)
LEMMA ManagerStays ==
  ASSUME Shape, Manager, UNCHANGED <<items, lock>>, Instances' = Instances,
         \A i \in Instances : SameServer(inst'[i], inst[i]),
         lock # NoOne => admin'[lock] = admin[lock]
  PROVE  Manager'
<1>1. Running' = Running /\ \A m \in Running : m \in Multicasts /\ items[m] \in Instances
  BY DEF Running, Shape
<1>2. ItemsNamed'
  BY <1>1 DEF Manager, ItemsNamed, SameServer
<1>3. PortsApart'
  BY <1>1 DEF Manager, PortsApart, SameServer
<1>4. Closing'
  <2>1. lock # NoOne => admin[lock].id \in Multicasts
    BY DEF Shape, Manager, Closing, Asked, Forgets
  <2>2. lock # NoOne => items[admin[lock].id] \in Instances
    BY <2>1 DEF Shape, Manager, Closing
  <2> QED BY <2>1, <2>2 DEF Manager, Closing, SameServer
<1>5. Enabled'
  BY <1>1 DEF Manager, Enabled, SameServer
<1>6. Known'
  <2>1. \A i \in Instances : MovedAway(i) => MovedAway(i)'
    BY DEF MovedAway, SameServer
  <2> QED BY <2>1 DEF Manager, Known, SameServer
<1> QED BY <1>2, <1>3, <1>4, <1>5, <1>6 DEF Manager

LEMMA SubscribersStay ==
  ASSUME Shape, Subscribers, UNCHANGED <<items, subs, joined>>,
         \A i \in Instances : inst'[i].cfg.port = inst[i].cfg.port,
         \A s \in Sessions : joined[s] # NoOne => session'[s] = session[s]
  PROVE  Subscribers'
<1>1. Running' = Running /\ \A m \in Running : items[m] # NoOne
  BY DEF Running
<1>2. JoinedAtPort'
  BY DEF Shape, Subscribers, JoinedAtPort
<1>3. SubscribersExact'
  BY <1>1 DEF Subscribers, JoinedAtPort, SubscribersExact
<1> QED BY <1>2, <1>3 DEF Subscribers

(* StartMulticast: the port is no running instance's, so the one that it   *)
(* takes the place of has another.                                         *)
LEMMA StartKeeps ==
  ASSUME Shape, Manager, Subscribers, NEW m \in Multicasts, NEW r \in RowType, r.enabled,
         StartMulticast(m, r), UNCHANGED <<session, joined>>
  PROVE  Manager' /\ Subscribers'
<1> DEFINE n == Len(inst) + 1
<1> DEFINE new == Inst(m, r, "listen")
<1>1. /\ lock = NoOne /\ lock' = NoOne /\ items' = [items EXCEPT ![m] = n]
      /\ inst' = Append(inst, new) /\ subs' = Append(subs, {})
      /\ ~PortInUse(r.port)
  BY DEF StartMulticast
<1>2. /\ Instances' = Instances \cup {n} /\ n \notin Instances /\ n # NoOne
      /\ inst'[n] = new /\ \A i \in Instances : inst'[i] = inst[i] /\ i < n
      /\ subs'[n] = {} /\ \A i \in Instances : subs'[i] = subs[i]
  <2>1. inst \in Seq(InstType) /\ n \in Nat /\ Len(subs) = Len(inst) /\ subs \in Seq(SUBSET Sessions)
    BY DEF Shape
  <2> HIDE DEF new
  <2> QED BY <1>1, <2>1, NoInstance DEF Instances
<1>3. new.id = m /\ new.cfg = r /\ ~new.closed
  BY DEF Inst
<1> HIDE DEF n, new
<1>4. /\ items'[m] = n /\ \A o \in Multicasts \ {m} : items'[o] = items[o]
      /\ \A o \in Multicasts : items[o] # NoOne => items[o] \in Instances
  BY <1>1 DEF Shape
<1>5. Running' = Running \cup {m} /\ Running \subseteq Multicasts
  BY <1>2, <1>4 DEF Running
<1>6. ItemsNamed'
  BY <1>2, <1>3, <1>4, <1>5 DEF Manager, ItemsNamed, Running
<1>7. PortsApart'
  <2>1. \A o \in Running : inst[items[o]].cfg.port # r.port
    BY <1>1 DEF PortInUse
  <2> QED BY <1>2, <1>3, <1>4, <1>5, <2>1 DEF Manager, PortsApart, Running
<1>8. Closing'
  BY <1>1 DEF Closing
<1>9. Enabled'
  <2>1. r.enabled /\ inst'[items'[m]].cfg.enabled
    BY <1>2, <1>3, <1>4
  <2>2. \A o \in Running : inst[items[o]].cfg.enabled
    BY <1>1 DEF Manager, Enabled
  <2>3. \A o \in Running \ {m} : inst'[items'[o]] = inst[items[o]]
    BY <1>2, <1>4, <1>5 DEF Running
  <2> QED BY <1>5, <2>1, <2>2, <2>3 DEF Enabled
<1>10. Known'
  <2>1. ASSUME NEW i \in Instances PROVE items'[inst'[i].id] = i \/ inst'[i].closed \/ MovedAway(i)'
    <3>0. inst[i] \in InstType
      BY DEF Shape, Instances
    <3>1. inst'[i] = inst[i] /\ inst[i].id \in Multicasts
      BY <1>2, <3>0 DEF InstType
    <3>2. MovedAway(i) => MovedAway(i)'
      BY <1>2 DEF MovedAway
    <3>3. CASE items[inst[i].id] = i /\ inst[i].id = m
      <4>1. m \in Running /\ items[m] = i
        BY <2>1, <3>3, NoInstance DEF Running, Instances, Shape
      <4>2. inst[i].cfg.port # r.port
        BY <1>1, <4>1 DEF PortInUse
      <4> QED BY <1>2, <1>3, <3>1, <3>3, <4>2 DEF MovedAway
    <3> QED BY <1>4, <3>1, <3>2, <3>3 DEF Manager, Known
  <2> QED BY <1>2, <1>3, <1>4, <2>1 DEF Known
<1>11. JoinedAtPort'
  BY <1>2 DEF Shape, Subscribers, JoinedAtPort
<1>12. SubscribersExact'
  <2>1. ASSUME NEW o \in Running'
        PROVE  subs'[items'[o]] = {s \in Sessions : session[s] = "subscriber" /\ joined[s] = items'[o]}
    <3>1. CASE o = m
      <4>1. \A s \in Sessions : joined[s] # n
        BY <1>2 DEF Shape
      <4> QED BY <1>2, <1>4, <3>1, <4>1
    <3>2. CASE o # m
      BY <1>2, <1>4, <1>5, <3>2 DEF Subscribers, SubscribersExact, Running
    <3> QED BY <3>1, <3>2
  <2> QED BY <2>1 DEF SubscribersExact
<1> QED BY <1>6, <1>7, <1>8, <1>9, <1>10, <1>11, <1>12 DEF Manager, Subscribers

(* StopMulticast closes the server under the mutex, ...                    *)
LEMMA CloseKeeps ==
  ASSUME Shape, Manager, NEW a \in Admins, NEW m \in Multicasts, CloseServer(m, a),
         admin'[a].pc \in Forgets, admin'[a].id = m
  PROVE  /\ Manager'
         /\ \A i \in Instances : inst'[i].cfg.port = inst[i].cfg.port
         /\ inst' \in Seq(InstType) /\ Len(inst') = Len(inst) /\ Instances' = Instances
         /\ \A i \in Instances : inst'[i].pc \in {"saveOpen", "saveError"} =>
              inst[i].pc = inst'[i].pc /\ inst[i].args = inst'[i].args
<1>0. PICK i : i = items[m]
  OBVIOUS
<1> DEFINE pc == IF inst[i].pc = "serving" THEN "done" ELSE inst[i].pc
<1> DEFINE y == [inst[i] EXCEPT !.closed = TRUE, !.pc = pc]
<1> DEFINE x == [y EXCEPT !.cfg.enabled = FALSE, !.cfg.status = "closed"]
<1>1. /\ lock = NoOne /\ lock' = a /\ i # NoOne /\ i \in Instances /\ items' = items
      /\ inst[i] \in InstType /\ inst \in Seq(InstType) /\ a # NoOne
  BY <1>0, MulticastAssumption DEF CloseServer, Shape, Instances, MulticastAssumption
<1>2. pc \in ServerPCs /\ (pc \in {"saveOpen", "saveError"} => pc = inst[i].pc)
  BY <1>1 DEF InstType, ServerPCs
<1>3. inst' = [inst EXCEPT ![i] = x]
  <2>1. inst' = [inst EXCEPT ![i].closed = TRUE, ![i].pc = pc,
                             ![i].cfg.enabled = FALSE, ![i].cfg.status = "closed"]
    BY <1>0, <1>1 DEF CloseServer
  <2>2. inst' = [[inst EXCEPT ![i] = y] EXCEPT ![i].cfg.enabled = FALSE, ![i].cfg.status = "closed"]
    BY <1>1, <2>1
  <2> QED BY <1>1, <2>2
<1>4. /\ x \in InstType /\ x.id = inst[i].id /\ x.closed /\ x.pc = pc /\ x.args = inst[i].args
      /\ x.cfg.port = inst[i].cfg.port /\ ~x.cfg.enabled
  <2> HIDE DEF pc
  <2>1. /\ y \in InstType /\ y.id = inst[i].id /\ y.closed /\ y.pc = pc /\ y.args = inst[i].args
        /\ y.cfg = inst[i].cfg
    BY <1>1, <1>2 DEF InstType
  <2> HIDE DEF y
  <2> DEFINE z == [y EXCEPT !.cfg.enabled = FALSE]
  <2>2. /\ z \in InstType /\ z.id = y.id /\ z.closed = y.closed /\ z.pc = y.pc /\ z.args = y.args
        /\ z.cfg.port = y.cfg.port /\ ~z.cfg.enabled
    BY <2>1 DEF InstType, RowType
  <2>3. x = [z EXCEPT !.cfg.status = "closed"]
    OBVIOUS
  <2> HIDE DEF x, z
  <2>4. /\ x \in InstType /\ x.id = z.id /\ x.closed = z.closed /\ x.pc = z.pc /\ x.args = z.args
        /\ x.cfg.port = z.cfg.port /\ x.cfg.enabled = z.cfg.enabled
    BY <2>2, <2>3 DEF InstType, RowType
  <2> QED BY <2>1, <2>2, <2>4
<1> HIDE DEF pc, x, y
<1>5. /\ inst' \in Seq(InstType) /\ Len(inst') = Len(inst) /\ Instances' = Instances
      /\ inst'[i] = x /\ \A j \in Instances \ {i} : inst'[j] = inst[j]
  BY <1>1, <1>3, <1>4, InstUpdated
<1>6. \A j \in Instances :
        /\ inst'[j].id = inst[j].id /\ inst'[j].cfg.port = inst[j].cfg.port
        /\ inst[j].closed => inst'[j].closed
  BY <1>2, <1>4, <1>5
<1>7. Running' = Running /\ \A o \in Running : o \in Multicasts /\ items[o] \in Instances
  BY <1>1 DEF Running, Shape
<1>8. ItemsNamed'
  BY <1>1, <1>6, <1>7 DEF Manager, ItemsNamed
<1>8a. PortsApart'
  BY <1>1, <1>6, <1>7 DEF Manager, PortsApart
<1>9. Closing'
  BY <1>0, <1>1, <1>4, <1>5 DEF Closing
<1>10. Enabled'
  <2>1. \A o \in Running : o # m => items[o] # i
    BY <1>0, <1>1 DEF Manager, ItemsNamed, Running
  <2>2. \A o \in Running : o # m => inst'[items'[o]] = inst[items[o]] /\ inst[items[o]].cfg.enabled
    BY <1>1, <1>5, <1>7, <2>1 DEF Manager, Enabled
  <2> QED BY <1>1, <1>7, <2>2 DEF Enabled
<1>11. Known'
  <2>1. \A j \in Instances : MovedAway(j) => MovedAway(j)'
    BY <1>5, <1>6 DEF MovedAway
  <2>2. ASSUME NEW j \in Instances PROVE items'[inst'[j].id] = j \/ inst'[j].closed \/ MovedAway(j)'
    BY <1>1, <1>6, <2>1 DEF Manager, Known
  <2> QED BY <1>5, <2>2 DEF Known
<1>12. \A j \in Instances : inst'[j].pc \in {"saveOpen", "saveError"} =>
         inst[j].pc = inst'[j].pc /\ inst[j].args = inst'[j].args
  BY <1>2, <1>4, <1>5
<1> QED BY <1>5, <1>6, <1>8, <1>8a, <1>9, <1>10, <1>11, <1>12 DEF Manager

(* ... and forgets it: it was closed.                                      *)
LEMMA ForgetKeeps ==
  ASSUME Shape, Manager, Subscribers, NEW a \in Admins, ForgetServer(admin[a].id, a),
         UNCHANGED <<session, joined>>
  PROVE  Manager' /\ Subscribers'
<1> DEFINE m == admin[a].id
<1>1. /\ lock = a /\ lock' = NoOne /\ a # NoOne /\ UNCHANGED <<inst, subs>>
      /\ items' = [items EXCEPT ![m] = NoOne]
      /\ items[m] # NoOne /\ inst[items[m]].closed
  BY MulticastAssumption DEF ForgetServer, Manager, Closing, MulticastAssumption
<1>2. m \in Multicasts
  BY <1>1 DEF Shape, Asked, Manager, Closing, Forgets
<1> HIDE DEF m
<1>3. items'[m] = NoOne /\ \A o \in Multicasts \ {m} : items'[o] = items[o]
  BY <1>1, <1>2 DEF Shape
<1>4. Running' = Running \ {m} /\ Running \subseteq Multicasts
  BY <1>2, <1>3 DEF Running
<1>5. ItemsNamed' /\ PortsApart' /\ Closing' /\ JoinedAtPort'
  BY <1>1, <1>3, <1>4 DEF Manager, ItemsNamed, PortsApart, Closing, Subscribers, JoinedAtPort
<1>6. Enabled'
  BY <1>1, <1>3, <1>4 DEF Manager, Enabled, m
<1>7. Known'
  <2>1. \A i \in Instances : inst[i] \in InstType
    BY DEF Instances, Shape
  <2>2. \A i \in Instances : inst[i].id \in Multicasts
    BY <2>1 DEF InstType
  <2>3. \A i : MovedAway(i) <=> MovedAway(i)'
    BY <1>1 DEF MovedAway, Instances
  <2>4. ASSUME NEW i \in Instances PROVE items'[inst[i].id] = i \/ inst[i].closed \/ MovedAway(i)
    BY <1>1, <1>3, <2>2 DEF Manager, Known
  <2> QED BY <1>1, <2>3, <2>4 DEF Known, Instances
<1>8. SubscribersExact'
  BY <1>1, <1>3, <1>4 DEF Subscribers, SubscribersExact
<1> QED BY <1>5, <1>6, <1>7, <1>8 DEF Manager, Subscribers

(* The process starts again with the enabled rows, which have ports of     *)
(* their own.                                                              *)
LEMMA RestartKeeps ==
  ASSUME IsFiniteSet(Multicasts), Shape, RowsApart, Restart
  PROVE  Shape' /\ Manager' /\ Subscribers'
<1> DEFINE S == {m \in Multicasts : rows[m] # NoOne /\ rows[m].enabled}
<1>1. PICK q : q \in SetToSeqs(S) /\ RestoreInOrder(q)
  BY DEF Restart
<1>2. PICK n \in Nat : q \in [1..n -> S] /\ \A j, k \in 1..n : j # k => q[j] # q[k]
  <2>1. IsFiniteSet(S)
    BY FS_Subset
  <2>2. Cardinality(S) \in Nat
    BY <2>1, FS_CardinalityType
  <2> QED BY <1>1, <2>2 DEF SetToSeqs
<1>3. /\ inst' = [k \in 1..n |-> Inst(q[k], rows[q[k]], "listen")]
      /\ subs' = [k \in 1..n |-> {}]
      /\ items' = [m \in Multicasts |->
                     IF \E k \in 1..n : q[k] = m THEN CHOOSE k \in 1..n : q[k] = m ELSE NoOne]
      /\ socket' = [p \in Ports |-> NoOne] /\ lock' = NoOne
      /\ admin' = [a \in Admins |-> NoRequest]
      /\ session' = [s \in Sessions |-> IF session[s] = "new" THEN "new" ELSE "done"]
      /\ joined' = [s \in Sessions |-> NoOne]
      /\ stopped' = {} /\ rows' = rows
  <2>1. DOMAIN q = 1..n
    BY <1>2
  <2>2. \A m : Contains(q, m) <=> \E k \in 1..n : q[k] = m
    BY <2>1 DEF Contains
  <2>3. /\ inst' = [k \in DOMAIN q |-> Inst(q[k], rows[q[k]], "listen")]
        /\ subs' = [k \in DOMAIN q |-> {}]
        /\ items' = [m \in Multicasts |->
                       IF Contains(q, m) THEN CHOOSE k \in DOMAIN q : q[k] = m ELSE NoOne]
    BY <1>1 DEF RestoreInOrder
  <2>4. /\ socket' = [p \in Ports |-> NoOne] /\ lock' = NoOne
        /\ admin' = [a \in Admins |-> NoRequest]
        /\ session' = [s \in Sessions |-> IF session[s] = "new" THEN "new" ELSE "done"]
        /\ joined' = [s \in Sessions |-> NoOne]
        /\ stopped' = {} /\ rows' = rows
    BY <1>1 DEF RestoreInOrder
  <2> QED BY <2>1, <2>2, <2>3, <2>4
<1>4. \A m \in S : m \in Multicasts /\ rows[m] \in RowType /\ rows[m].enabled /\ rows[m] # NoOne
  BY DEF Shape
<1> HIDE DEF S
<1>5. \A j, k \in 1..n : q[j] = q[k] => j = k
  BY <1>2
<1>6. \A k \in 1..n : /\ q[k] \in S /\ inst'[k].id = q[k] /\ inst'[k].cfg = rows[q[k]]
                      /\ inst'[k] \in InstType /\ inst'[k].pc = "listen"
  <2>1. ASSUME NEW k \in 1..n PROVE Inst(q[k], rows[q[k]], "listen") \in InstType
    <3>1. q[k] \in Multicasts /\ rows[q[k]] \in RowType
      BY <1>2, <1>4
    <3> QED BY <3>1 DEF Inst, InstType, ServerPCs
  <2> QED BY <1>2, <1>3, <2>1 DEF Inst
<1>7. /\ inst' \in Seq(InstType) /\ Len(inst') = n /\ Instances' = 1..n
      /\ subs' \in Seq(SUBSET Sessions) /\ Len(subs') = n
  <2>1. inst' = [k \in 1..n |-> Inst(q[k], rows[q[k]], "listen")] /\ \A k \in 1..n : inst'[k] \in InstType
    BY <1>3, <1>6
  <2>2. inst' \in Seq(InstType) /\ Len(inst') = n
    BY <2>1
  <2>3. subs' = [k \in 1..n |-> {}] /\ {} \in SUBSET Sessions
    BY <1>3
  <2>4. subs' \in Seq(SUBSET Sessions) /\ Len(subs') = n
    BY <2>3
  <2> QED BY <2>2, <2>4 DEF Instances
<1>8. \A k \in 1..n : items'[q[k]] = k
  <2>1. ASSUME NEW k \in 1..n PROVE items'[q[k]] = k
    <3>1. q[k] \in Multicasts
      BY <1>4, <1>6
    <3> QED BY <1>3, <1>5, <3>1
  <2> QED BY <2>1
<1>9. \A m \in Multicasts : items'[m] # NoOne => items'[m] \in 1..n /\ q[items'[m]] = m
  BY <1>3
<1>10. Running' \subseteq Multicasts /\ \A m \in Running' : items'[m] # NoOne
  BY DEF Running
<1>11. Shape'
  <2>1. items' \in [Multicasts -> Instances' \cup {NoOne}]
    BY <1>3, <1>7, <1>9
  <2>2. admin' \in [Admins -> RequestType] /\ \A a \in Admins : Asked(admin'[a])
    BY <1>3 DEF NoRequest, Request, RequestType, AdminPCs, Asked, Starting, Forgets
  <2>3. session' \in [Sessions -> {"new", "add", "bind", "subscriber", "bound", "done"}]
    BY <1>3
  <2>4. joined' \in [Sessions -> Instances' \cup {NoOne}]
        /\ socket' \in [Ports -> Instances' \cup Sessions \cup {NoOne}]
    BY <1>3
  <2> QED BY <1>3, <1>6, <1>7, <2>1, <2>2, <2>3, <2>4 DEF Shape
<1>12. ItemsNamed'
  BY <1>6, <1>9, <1>10 DEF ItemsNamed
<1>13. PortsApart'
  <2>1. \A m \in Running' : inst'[items'[m]].cfg = rows[m] /\ rows[m] # NoOne
    BY <1>4, <1>6, <1>9, <1>10
  <2> QED BY <1>10, <2>1 DEF PortsApart, RowsApart
<1>14. Closing' /\ JoinedAtPort'
  BY <1>3 DEF Closing, JoinedAtPort
<1>15. Enabled'
  BY <1>4, <1>6, <1>9, <1>10 DEF Enabled
<1>16. Known'
  BY <1>6, <1>7, <1>8 DEF Known
<1>17. SubscribersExact'
  <2>1. \A m \in Running' : subs'[items'[m]] = {}
    BY <1>3, <1>9, <1>10
  <2> QED BY <1>3, <1>10, <2>1 DEF SubscribersExact
<1> QED BY <1>11, <1>12, <1>13, <1>14, <1>15, <1>16, <1>17 DEF Manager, Subscribers

(* What a session does: a lookup by its port finds the running instance it *)
(* joined, and no other.                                                   *)
LEMMA SessionKeeps ==
  ASSUME Shape, Manager, Subscribers, NEW s \in Sessions, SessionStep(s)
  PROVE  Shape' /\ Manager' /\ Subscribers'
<1>1. /\ UNCHANGED <<rows, items, inst, lock, admin, stopped>> /\ Instances' = Instances
      /\ session' \in [Sessions -> {"new", "add", "bind", "subscriber", "bound", "done"}]
      /\ \A o \in Sessions \ {s} : session'[o] = session[o]
      /\ joined[s] # NoOne => session[s] = "subscriber"
  BY DEF SessionStep, Lookup, AddSubscriber, Bind, Unbind, RemoveSubscriber, server, Goes, Shape,
         Instances, Subscribers, JoinedAtPort
<1>2. Manager'
  BY <1>1, ManagerStays DEF SameServer
<1>3. /\ \A m \in Running : m \in Multicasts /\ items[m] \in Instances /\ items[m] # NoOne
      /\ \A m, n \in Running : items[m] = items[n] => m = n
      /\ Running' = Running
  BY <1>1 DEF Running, Shape, Manager, ItemsNamed
<1>4. \A p : \A m \in ActiveOn(p) : m \in Running
  BY DEF ActiveOn
<1>5. ASSUME UNCHANGED <<subs, joined>>, joined[s] = NoOne,
             socket' \in [Ports -> Instances \cup Sessions \cup {NoOne}]
      PROVE  Shape' /\ Subscribers'
  <2>1. Subscribers'
    BY <1>1, <1>5, SubscribersStay
  <2> QED BY <1>1, <1>5, <2>1 DEF Shape
<1>6. CASE Lookup(s) \/ Bind(s) \/ Unbind(s)
  <2>1. UNCHANGED <<subs, joined>> /\ session[s] # "subscriber"
    BY <1>6 DEF Lookup, Bind, Unbind, server, Goes
  <2>2. socket' \in [Ports -> Instances \cup Sessions \cup {NoOne}]
    BY <1>6 DEF Lookup, Bind, Unbind, server, Shape, Freed
  <2> QED BY <1>1, <1>2, <1>5, <2>1, <2>2
<1>7. CASE AddSubscriber(s)
  <2>1. session[s] = "add" /\ session'[s] = "subscriber" /\ socket' = socket /\ joined[s] = NoOne
    BY <1>1, <1>7 DEF AddSubscriber, Goes, Shape
  <2>2. CASE ActiveOn(PortOf[s]) = {}
    BY <1>2, <1>5, <1>7, <2>1, <2>2 DEF AddSubscriber, Shape
  <2>3. ASSUME NEW m \in ActiveOn(PortOf[s]), subs' = [subs EXCEPT ![items[m]] = @ \cup {s}],
               joined' = [joined EXCEPT ![s] = items[m]]
        PROVE  Shape' /\ Subscribers'
    <3>1. m \in Running /\ inst[items[m]].cfg.port = PortOf[s] /\ items[m] \in Instances
      BY <1>3, <2>3 DEF ActiveOn
    <3>2. /\ joined' \in [Sessions -> Instances \cup {NoOne}] /\ joined'[s] = items[m]
          /\ \A o \in Sessions \ {s} : joined'[o] = joined[o]
      BY <2>3, <3>1 DEF Shape
    <3>3. /\ subs' \in Seq(SUBSET Sessions) /\ Len(subs') = Len(subs)
          /\ subs'[items[m]] = subs[items[m]] \cup {s}
          /\ \A i \in Instances : i # items[m] => subs'[i] = subs[i]
      BY <2>3, <3>1 DEF Shape, Instances
    <3>4. Shape'
      BY <1>1, <2>1, <3>2, <3>3 DEF Shape
    <3>5. JoinedAtPort'
      BY <1>1, <2>1, <3>1, <3>2 DEF Subscribers, JoinedAtPort
    <3>6. ASSUME NEW o \in Running
          PROVE  subs'[items[o]] = {t \in Sessions : session'[t] = "subscriber" /\ joined'[t] = items[o]}
      <4>1. subs[items[o]] = {t \in Sessions : session[t] = "subscriber" /\ joined[t] = items[o]}
        BY DEF Subscribers, SubscribersExact
      <4>2. CASE o = m
        BY <1>1, <2>1, <3>2, <3>3, <4>1, <4>2
      <4>3. CASE o # m
        <5>1. items[o] # items[m] /\ items[o] \in Instances
          BY <1>3, <3>1, <4>3
        <5> QED BY <1>1, <1>3, <2>1, <3>2, <3>3, <4>1, <5>1
      <4> QED BY <4>2, <4>3
    <3>7. SubscribersExact'
      BY <1>1, <1>3, <3>6 DEF SubscribersExact
    <3> QED BY <3>4, <3>5, <3>7 DEF Subscribers
  <2> QED BY <1>2, <1>7, <2>2, <2>3 DEF AddSubscriber
<1>8. CASE RemoveSubscriber(s)
  <2>1. /\ session[s] = "subscriber" /\ session'[s] = "done" /\ socket' = socket /\ lock = NoOne
        /\ joined' \in [Sessions -> Instances \cup {NoOne}] /\ joined'[s] = NoOne
        /\ \A o \in Sessions \ {s} : joined'[o] = joined[o]
    BY <1>1, <1>8 DEF RemoveSubscriber, Goes, Shape
  <2>2. /\ subs' \in Seq(SUBSET Sessions) /\ Len(subs') = Len(subs)
        /\ \A i \in Instances : subs'[i] \subseteq subs[i] /\ subs[i] \ {s} \subseteq subs'[i]
    <3>1. CASE ActiveOn(PortOf[s]) = {}
      BY <1>8, <3>1 DEF RemoveSubscriber, Shape, Instances
    <3>2. ASSUME NEW m \in ActiveOn(PortOf[s]), subs' = [subs EXCEPT ![items[m]] = @ \ {s}]
          PROVE  /\ subs' \in Seq(SUBSET Sessions) /\ Len(subs') = Len(subs)
                 /\ \A i \in Instances : subs'[i] \subseteq subs[i] /\ subs[i] \ {s} \subseteq subs'[i]
      BY <1>3, <1>4, <3>2 DEF Shape, Instances
    <3> QED BY <1>8, <3>1, <3>2 DEF RemoveSubscriber
  <2>3. \A o \in Running : s \notin subs'[items[o]]
    <3> SUFFICES ASSUME NEW o \in Running PROVE s \notin subs'[items[o]]
      OBVIOUS
    <3>1. subs[items[o]] = {t \in Sessions : session[t] = "subscriber" /\ joined[t] = items[o]}
      BY DEF Subscribers, SubscribersExact
    <3>2. CASE joined[s] # items[o]
      BY <1>3, <2>2, <3>1, <3>2
    <3>3. CASE joined[s] = items[o]
      <4>1. inst[items[o]].cfg.port = PortOf[s] /\ inst[items[o]].cfg.enabled
        BY <1>3, <2>1, <3>3 DEF Subscribers, JoinedAtPort, Manager, Enabled
      <4>2. o \in ActiveOn(PortOf[s])
        BY <4>1 DEF ActiveOn
      <4>3. \A m \in ActiveOn(PortOf[s]) : m = o
        BY <4>1 DEF ActiveOn, Manager, PortsApart
      <4>4. subs' = [subs EXCEPT ![items[o]] = @ \ {s}]
        BY <1>8, <4>2, <4>3 DEF RemoveSubscriber
      <4> QED BY <1>3, <4>4 DEF Shape, Instances
    <3> QED BY <3>2, <3>3
  <2>4. Shape'
    BY <1>1, <2>1, <2>2 DEF Shape
  <2>5. JoinedAtPort'
    BY <1>1, <2>1 DEF Subscribers, JoinedAtPort
  <2>6. ASSUME NEW o \in Running
        PROVE  subs'[items[o]] = {t \in Sessions : session'[t] = "subscriber" /\ joined'[t] = items[o]}
    <3>1. subs[items[o]] = {t \in Sessions : session[t] = "subscriber" /\ joined[t] = items[o]}
      BY DEF Subscribers, SubscribersExact
    <3>2. subs'[items[o]] = subs[items[o]] \ {s}
      BY <1>3, <2>2, <2>3
    <3> QED BY <1>1, <2>1, <3>1, <3>2
  <2>7. SubscribersExact'
    BY <1>1, <1>3, <2>6 DEF SubscribersExact
  <2> QED BY <1>2, <2>4, <2>5, <2>7 DEF Subscribers
<1> QED BY <1>6, <1>7, <1>8 DEF SessionStep

(* An UPDATE keeps the ports of the rows apart.                            *)
LEMMA SaveKeeps ==
  ASSUME Shape, RowsApart, NEW m \in Multicasts, NEW r \in RowType, Save(m, r)
  PROVE  rows' \in [Multicasts -> RowType \cup {NoOne}] /\ RowsApart'
<1>1. CASE rows' = rows
  BY <1>1 DEF Shape, RowsApart
<1>2. CASE rows' = [rows EXCEPT ![m] = r] /\ ~PortTaken(r.port, m)
  <2>1. /\ rows' \in [Multicasts -> RowType \cup {NoOne}] /\ rows'[m] = r
        /\ \A n \in Multicasts \ {m} : rows'[n] = rows[n]
    BY <1>2 DEF Shape
  <2> QED BY <1>2, <2>1 DEF RowsApart, PortTaken
<1> QED BY <1>1, <1>2 DEF Save

LEMMA ShapeStays ==
  ASSUME Shape, inst' \in Seq(InstType), Len(inst') = Len(inst),
         \A i \in Instances : inst'[i].pc \in {"saveOpen", "saveError"} => inst'[i].args \in RowType,
         rows' \in [Multicasts -> RowType \cup {NoOne}],
         UNCHANGED <<items, subs, session, joined, stopped>>, lock' \in Admins \cup {NoOne},
         admin' \in [Admins -> RequestType], \A a \in Admins : Asked(admin'[a]),
         socket' \in [Ports -> Instances \cup Sessions \cup {NoOne}]
  PROVE  Shape'
<1>1. Instances' = Instances
  BY DEF Shape, Instances
<1> QED BY <1>1 DEF Shape

LEMMA ServerKeeps ==
  ASSUME Shape, RowsApart, Manager, Subscribers, NEW i \in Instances, ServerStep(i)
  PROVE  MulticastInv'
<1>1. /\ UNCHANGED <<items, subs, lock, admin, session, joined, stopped>>
      /\ socket' \in [Ports -> Instances \cup Sessions \cup {NoOne}]
  BY DEF ServerStep, Listen, ReadConfig, SaveConfig, Serve, ServeFails, others, Shape, Freed
<1>2. PICK x \in InstType : /\ inst' = [inst EXCEPT ![i] = x] /\ SameServer(x, inst[i])
                            /\ x.pc \in {"saveOpen", "saveError"} => x.args \in RowType
  BY ServerMoves
<1>3. /\ inst' \in Seq(InstType) /\ Len(inst') = Len(inst) /\ Instances' = Instances
      /\ inst'[i] = x /\ \A j \in Instances \ {i} : inst'[j] = inst[j]
  BY <1>2, InstUpdated DEF Shape
<1>4. rows' \in [Multicasts -> RowType \cup {NoOne}] /\ RowsApart'
  <2>1. CASE SaveConfig(i)
    <3>1. Save(inst[i].id, inst[i].args) /\ inst[i].pc \in {"saveOpen", "saveError"}
      BY <2>1 DEF SaveConfig
    <3>2. inst[i] \in InstType /\ inst[i].args \in RowType
      BY <3>1 DEF Shape, Instances
    <3> QED BY <3>1, <3>2, SaveKeeps DEF InstType
  <2>2. CASE UNCHANGED rows
    BY <2>2 DEF Shape, RowsApart
  <2> QED BY <2>1, <2>2 DEF ServerStep, Listen, ReadConfig, Serve, ServeFails
<1>5. \A j \in Instances : SameServer(inst'[j], inst[j])
  BY <1>2, <1>3 DEF SameServer
<1>6. Shape'
  <2>1. \A j \in Instances : inst'[j].pc \in {"saveOpen", "saveError"} => inst'[j].args \in RowType
    BY <1>2, <1>3 DEF Shape
  <2>2. lock \in Admins \cup {NoOne} /\ admin \in [Admins -> RequestType]
        /\ \A a \in Admins : Asked(admin[a])
    BY DEF Shape
  <2> QED BY <1>1, <1>3, <1>4, <2>1, <2>2, ShapeStays
<1>7. Manager'
  BY <1>1, <1>3, <1>5, ManagerStays
<1>8. Subscribers'
  BY <1>1, <1>5, SubscribersStay DEF SameServer
<1> QED BY <1>4, <1>6, <1>7, <1>8 DEF MulticastInv

LEMMA Becoming ==
  ASSUME Shape, NEW a \in Admins, NEW q \in RequestType, Asked(q), Becomes(a, q)
  PROVE  /\ admin' \in [Admins -> RequestType] /\ \A b \in Admins : Asked(admin'[b])
         /\ admin'[a] = q /\ \A b \in Admins \ {a} : admin'[b] = admin[b]
  BY DEF Becomes, Shape

LEMMA Ending ==
  ASSUME Shape, NEW a \in Admins, Ends(a)
  PROVE  /\ admin' \in [Admins -> RequestType] /\ \A b \in Admins : Asked(admin'[b])
         /\ \A b \in Admins \ {a} : admin'[b] = admin[b]
<1>1. NoRequest \in RequestType /\ Asked(NoRequest)
  BY DEF NoRequest, Request, RequestType, AdminPCs, Asked, Starting, Forgets
<1> QED BY <1>1, Becoming DEF Ends

(* A step of a request that leaves the manager alone.                      *)
LEMMA RequestKeeps ==
  ASSUME Shape, Manager, Subscribers, NEW a \in Admins,
         admin[a].pc \notin Forgets,
         rows' \in [Multicasts -> RowType \cup {NoOne}], RowsApart',
         UNCHANGED <<server, session, joined, stopped>>,
         admin' \in [Admins -> RequestType], \A b \in Admins : Asked(admin'[b]),
         \A b \in Admins \ {a} : admin'[b] = admin[b]
  PROVE  MulticastInv'
<1>1. UNCHANGED <<items, inst, subs, socket, lock>> /\ Instances' = Instances
  BY DEF server, Instances
<1>2. Shape'
  BY <1>1 DEF Shape
<1>3. lock # NoOne => admin'[lock] = admin[lock]
  BY DEF Manager, Closing, Shape
<1>4. Manager'
  BY <1>1, <1>3, ManagerStays DEF SameServer
<1>5. Subscribers'
  BY <1>1, SubscribersStay
<1> QED BY <1>2, <1>4, <1>5 DEF MulticastInv

LEMMA CreateKeeps ==
  ASSUME MulticastInv, NEW a \in Admins, NEW m \in Multicasts, NEW p \in Ports,
         NEW enabled \in BOOLEAN, Create(a, m, p, enabled)
  PROVE  MulticastInv'
<1> DEFINE r == Row(p, enabled, "closed")
<1>1. /\ admin[a] = NoRequest /\ rows' = [rows EXCEPT ![m] = r] /\ ~PortTaken(p, m)
      /\ IF enabled THEN Becomes(a, Request("startNew", m, r)) ELSE Ends(a)
      /\ UNCHANGED <<server, session, joined, stopped>>
  BY DEF Create, Arrives, others
<1>2. r \in RowType /\ r.port = p /\ r.enabled = enabled
  BY DEF Row, RowType
<1> HIDE DEF r
<1>3. /\ rows' \in [Multicasts -> RowType \cup {NoOne}] /\ rows'[m] = r
      /\ \A n \in Multicasts \ {m} : rows'[n] = rows[n]
  BY <1>1, <1>2 DEF MulticastInv, Shape
<1>4. RowsApart'
  BY <1>1, <1>2, <1>3 DEF MulticastInv, RowsApart, PortTaken
<1>5. /\ admin' \in [Admins -> RequestType] /\ \A b \in Admins : Asked(admin'[b])
      /\ \A b \in Admins \ {a} : admin'[b] = admin[b]
  <2>1. CASE enabled
    <3>1. Request("startNew", m, r) \in RequestType /\ Asked(Request("startNew", m, r))
      BY <1>2, <2>1 DEF Request, RequestType, AdminPCs, Asked, Starting, Forgets
    <3> QED BY <1>1, <2>1, <3>1, Becoming DEF MulticastInv
  <2> QED BY <1>1, <2>1, Ending DEF MulticastInv
<1>6. admin[a].pc \notin Forgets
  BY <1>1 DEF NoRequest, Request, Forgets
<1> QED BY <1>1, <1>3, <1>4, <1>5, <1>6, RequestKeeps DEF MulticastInv

LEMMA WriteRowKeeps ==
  ASSUME MulticastInv, NEW a \in Admins, NEW change \in Changes, NEW p \in Ports,
         WriteRow(a, change, p)
  PROVE  MulticastInv'
<1> DEFINE m == admin[a].id
<1> DEFINE r == Changed(admin[a].row, change, p)
<1> DEFINE q == Request(Follow(change, r), m, r)
<1>1. /\ admin[a].pc = "write" /\ Save(m, r) /\ UNCHANGED <<server, session, joined, stopped>>
      /\ Ends(a) \/ (Follow(change, r) # "none" /\ Becomes(a, q))
  BY DEF WriteRow, others
<1>2. m \in Multicasts /\ admin[a].row \in RowType
  BY <1>1 DEF MulticastInv, Shape, Asked
<1>3. r \in RowType /\ (Follow(change, r) \in {"start", "restart"} => r.enabled)
  <2>1. r \in RowType
    BY <1>2 DEF Changed, RowType
  <2>2. change \in {"on", "port and on"} => r.enabled
    BY <1>2 DEF Changed, RowType
  <2> HIDE DEF r
  <2> QED BY <2>1, <2>2 DEF Follow
<1>4. Follow(change, r) \in {"start", "stop", "restart", "none"}
  BY DEF Follow
<1>5. ASSUME Follow(change, r) # "none" PROVE q \in RequestType /\ Asked(q)
  <2> HIDE DEF m, r
  <2> QED BY <1>2, <1>3, <1>4, <1>5 DEF Request, RequestType, AdminPCs, Asked, Starting, Forgets
<1> HIDE DEF m, r, q
<1>6. /\ admin' \in [Admins -> RequestType] /\ \A b \in Admins : Asked(admin'[b])
      /\ \A b \in Admins \ {a} : admin'[b] = admin[b]
  BY <1>1, <1>5, Becoming, Ending DEF MulticastInv
<1>7. rows' \in [Multicasts -> RowType \cup {NoOne}] /\ RowsApart'
  BY <1>1, <1>2, <1>3, SaveKeeps DEF MulticastInv
<1>8. admin[a].pc \notin Forgets
  BY <1>1 DEF Forgets
<1> QED BY <1>1, <1>6, <1>7, <1>8, RequestKeeps DEF MulticastInv

LEMMA ReadRowKeeps ==
  ASSUME MulticastInv, NEW a \in Admins, NEW m \in Multicasts, ReadRow(a, m) \/ Delete(a, m)
  PROVE  MulticastInv'
<1>1. /\ admin[a] = NoRequest /\ UNCHANGED <<rows, server, session, joined, stopped>>
      /\ rows[m] # NoOne /\ (\/ Becomes(a, Request("write", m, rows[m]))
                             \/ Becomes(a, Request("deleteStop", m, NoOne)))
  BY DEF ReadRow, Delete, Arrives, others
<1>2. rows[m] \in RowType
  BY <1>1 DEF MulticastInv, Shape
<1>3. /\ Request("write", m, rows[m]) \in RequestType /\ Asked(Request("write", m, rows[m]))
      /\ Request("deleteStop", m, NoOne) \in RequestType /\ Asked(Request("deleteStop", m, NoOne))
  BY <1>2 DEF Request, RequestType, AdminPCs, Asked, Starting, Forgets
<1>4. /\ admin' \in [Admins -> RequestType] /\ \A b \in Admins : Asked(admin'[b])
      /\ \A b \in Admins \ {a} : admin'[b] = admin[b]
  BY <1>1, <1>3, Becoming DEF MulticastInv
<1>5. rows' \in [Multicasts -> RowType \cup {NoOne}] /\ RowsApart'
  BY <1>1 DEF MulticastInv, Shape, RowsApart
<1>6. admin[a].pc \notin Forgets
  BY <1>1 DEF NoRequest, Request, Forgets
<1> QED BY <1>1, <1>4, <1>5, <1>6, RequestKeeps DEF MulticastInv

LEMMA DoDeleteKeeps ==
  ASSUME MulticastInv, NEW a \in Admins, DoDelete(a)
  PROVE  MulticastInv'
<1>1. /\ admin[a].pc = "delete" /\ rows' = [rows EXCEPT ![admin[a].id] = NoOne] /\ Ends(a)
      /\ UNCHANGED <<server, session, joined, stopped>>
  BY DEF DoDelete, others
<1>2. rows' \in [Multicasts -> RowType \cup {NoOne}] /\ RowsApart'
  BY <1>1 DEF MulticastInv, Shape, RowsApart
<1>3. admin[a].pc \notin Forgets
  BY <1>1 DEF Forgets
<1> QED BY <1>1, <1>2, <1>3, Ending, RequestKeeps DEF MulticastInv

(* A refused start writes the row of the endpoint that was being created.  *)
LEMMA DoStartKeeps ==
  ASSUME MulticastInv, NEW a \in Admins, DoStart(a)
  PROVE  MulticastInv'
<1>1. PICK m, r : m = admin[a].id /\ r = admin[a].row
  OBVIOUS
<1>2. /\ admin[a].pc \in {"startNew", "start"} /\ Ends(a) /\ UNCHANGED <<session, joined>>
      /\ m \in Multicasts /\ r \in RowType /\ r.enabled
  BY <1>1 DEF DoStart, others, MulticastInv, Shape, Asked, Starting
<1>3. /\ admin' \in [Admins -> RequestType] /\ \A b \in Admins : Asked(admin'[b])
      /\ \A b \in Admins \ {a} : admin'[b] = admin[b]
  BY <1>2, Ending DEF MulticastInv
<1>4. CASE StartMulticast(m, r) /\ UNCHANGED rows
  <2>1. Manager' /\ Subscribers'
    BY <1>2, <1>4, StartKeeps DEF MulticastInv
  <2>2. PICK new : new = Inst(m, r, "listen")
    OBVIOUS
  <2>3. new \in InstType /\ new.pc = "listen"
    BY <1>2, <2>2 DEF Inst, InstType, ServerPCs
  <2>4. /\ inst' = Append(inst, new) /\ subs' = Append(subs, {})
        /\ items' = [items EXCEPT ![m] = Len(inst) + 1]
        /\ stopped' = stopped \ {m} /\ lock' = lock /\ socket' = socket
    BY <1>4, <2>2 DEF StartMulticast
  <2>5. /\ inst' \in Seq(InstType) /\ Len(inst') = Len(inst) + 1
        /\ subs' \in Seq(SUBSET Sessions) /\ Len(subs') = Len(subs) + 1
        /\ Instances' = Instances \cup {Len(inst) + 1}
        /\ \A i \in Instances : inst'[i] = inst[i]
        /\ inst'[Len(inst) + 1] = new
    BY <2>3, <2>4 DEF MulticastInv, Shape, Instances
  <2>6. Shape'
    BY <1>2, <1>3, <1>4, <2>3, <2>4, <2>5 DEF MulticastInv, Shape
  <2> QED BY <1>4, <2>1, <2>6 DEF MulticastInv, RowsApart
<1>5. CASE StartRefused(r) /\ (Save(m, [r EXCEPT !.status = "error"]) \/ UNCHANGED rows)
  <2>1. [r EXCEPT !.status = "error"] \in RowType
    BY <1>2 DEF RowType
  <2>2. rows' \in [Multicasts -> RowType \cup {NoOne}] /\ RowsApart'
    <3>1. CASE Save(m, [r EXCEPT !.status = "error"])
      BY <1>2, <2>1, <3>1, SaveKeeps DEF MulticastInv
    <3>2. CASE UNCHANGED rows
      BY <3>2 DEF MulticastInv, Shape, RowsApart
    <3> QED BY <1>5, <3>1, <3>2
  <2>3. UNCHANGED <<server, session, joined, stopped>> /\ admin[a].pc \notin Forgets
    BY <1>2, <1>5 DEF StartRefused, Forgets
  <2> QED BY <1>3, <2>2, <2>3, RequestKeeps DEF MulticastInv
<1> QED BY <1>1, <1>4, <1>5 DEF DoStart

LEMMA ProceedsWell ==
  ASSUME Shape, NEW a \in Admins, Proceeds(a), admin[a].pc # "idle"
  PROVE  /\ admin' \in [Admins -> RequestType] /\ \A b \in Admins : Asked(admin'[b])
         /\ \A b \in Admins \ {a} : admin'[b] = admin[b]
<1>1. admin[a] \in RequestType /\ Asked(admin[a])
  BY DEF Shape
<1>2. ASSUME NEW pc, pc = AfterStop(admin[a].pc), pc # "none"
      PROVE  Request(pc, admin[a].id, admin[a].row) \in RequestType
             /\ Asked(Request(pc, admin[a].id, admin[a].row))
  <2>1. \/ pc = "start" /\ admin[a].pc \in {"restart", "restartForget"}
        \/ pc = "delete"
    BY <1>2 DEF AfterStop
  <2> QED BY <1>1, <2>1 DEF Request, RequestType, AdminPCs, Asked, Starting, Forgets
<1>3. Ends(a) \/ (AfterStop(admin[a].pc) # "none"
                  /\ Becomes(a, Request(AfterStop(admin[a].pc), admin[a].id, admin[a].row)))
  BY DEF Proceeds
<1> QED BY <1>2, <1>3, Becoming, Ending

LEMMA DoStopKeeps ==
  ASSUME MulticastInv, NEW a \in Admins, DoStop(a)
  PROVE  MulticastInv'
<1>1. PICK m : m = admin[a].id
  OBVIOUS
<1>2. /\ admin[a].pc \in {"stop", "restart", "deleteStop"}
      /\ UNCHANGED <<rows, session, joined, stopped>> /\ m \in Multicasts
      /\ admin[a] \in RequestType /\ Asked(admin[a])
  BY <1>1 DEF DoStop, others, MulticastInv, Shape, Asked
<1>3. rows' \in [Multicasts -> RowType \cup {NoOne}] /\ RowsApart'
  BY <1>2 DEF MulticastInv, Shape, RowsApart
<1>4. CASE CloseServer(m, a) /\ Becomes(a, Request(Forgetting(admin[a].pc), m, admin[a].row))
  <2>1. PICK q : q = Request(Forgetting(admin[a].pc), m, admin[a].row)
    OBVIOUS
  <2>2. q \in RequestType /\ Asked(q) /\ q.pc \in Forgets /\ q.id = m
    <3>1. \/ Forgetting(admin[a].pc) = "restartForget" /\ admin[a].pc = "restart"
          \/ Forgetting(admin[a].pc) = "deleteForget"
          \/ Forgetting(admin[a].pc) = "forget"
      BY DEF Forgetting
    <3> QED BY <1>2, <2>1, <3>1 DEF Request, RequestType, AdminPCs, Asked, Starting, Forgets
  <2>3. /\ admin' \in [Admins -> RequestType] /\ \A b \in Admins : Asked(admin'[b])
        /\ admin'[a] = q
    BY <1>4, <2>1, <2>2, Becoming DEF MulticastInv
  <2>4. /\ Manager' /\ \A i \in Instances : inst'[i].cfg.port = inst[i].cfg.port
        /\ inst' \in Seq(InstType) /\ Len(inst') = Len(inst)
        /\ \A i \in Instances : inst'[i].pc \in {"saveOpen", "saveError"} =>
             inst[i].pc = inst'[i].pc /\ inst[i].args = inst'[i].args
    BY <1>2, <1>4, <2>2, <2>3, CloseKeeps DEF MulticastInv
  <2>5. /\ UNCHANGED <<items, subs>> /\ lock' = a
        /\ socket' \in [Ports -> Instances \cup Sessions \cup {NoOne}]
    BY <1>4 DEF CloseServer, MulticastInv, Shape, Freed
  <2>6. Shape'
    <3>1. \A i \in Instances : inst'[i].pc \in {"saveOpen", "saveError"} => inst'[i].args \in RowType
      BY <2>4 DEF MulticastInv, Shape
    <3> QED BY <1>2, <1>3, <2>3, <2>4, <2>5, <3>1, ShapeStays DEF MulticastInv
  <2>7. Subscribers'
    BY <1>2, <2>4, <2>5, SubscribersStay DEF MulticastInv
  <2> QED BY <1>3, <2>4, <2>6, <2>7 DEF MulticastInv
<1>5. CASE Proceeds(a) /\ UNCHANGED server
  <2>1. admin[a].pc # "idle" /\ admin[a].pc \notin Forgets
    BY <1>2 DEF Forgets
  <2> QED BY <1>2, <1>3, <1>5, <2>1, ProceedsWell, RequestKeeps DEF MulticastInv
<1> QED BY <1>1, <1>4, <1>5 DEF DoStop

LEMMA DoForgetKeeps ==
  ASSUME MulticastInv, NEW a \in Admins, DoForget(a)
  PROVE  MulticastInv'
<1>1. /\ admin[a].pc \in Forgets /\ ForgetServer(admin[a].id, a) /\ Proceeds(a)
      /\ UNCHANGED <<session, joined>>
  BY DEF DoForget, others, Forgets
<1>2. Manager' /\ Subscribers'
  BY <1>1, ForgetKeeps DEF MulticastInv
<1>3. PICK m : m = admin[a].id
  OBVIOUS
<1>4. /\ m \in Multicasts /\ lock = a /\ lock' = NoOne /\ UNCHANGED <<inst, subs, socket>>
      /\ items' = [items EXCEPT ![m] = NoOne] /\ stopped' = stopped \cup {m}
      /\ items[m] \in Instances /\ Save(m, inst[items[m]].cfg)
  <2>1. m \in Multicasts
    BY <1>1, <1>3 DEF MulticastInv, Shape, Asked, Forgets
  <2>2. a # NoOne
    BY MulticastAssumption DEF MulticastAssumption
  <2> QED BY <1>1, <1>3, <2>1, <2>2 DEF ForgetServer, MulticastInv, Shape, Manager, Closing
<1>5. inst[items[m]].cfg \in RowType
  <2>1. inst[items[m]] \in InstType
    BY <1>4 DEF MulticastInv, Shape, Instances
  <2> QED BY <2>1 DEF InstType
<1>6. rows' \in [Multicasts -> RowType \cup {NoOne}] /\ RowsApart'
  BY <1>4, <1>5, SaveKeeps DEF MulticastInv
<1>7. admin' \in [Admins -> RequestType] /\ \A b \in Admins : Asked(admin'[b])
  <2>1. admin[a].pc # "idle"
    BY <1>1 DEF Forgets
  <2> QED BY <1>1, <2>1, ProceedsWell DEF MulticastInv
<1>8. Shape'
  <2>1. Instances' = Instances /\ items' \in [Multicasts -> Instances \cup {NoOne}]
    BY <1>4 DEF MulticastInv, Shape, Instances
  <2> QED BY <1>1, <1>4, <1>6, <1>7, <2>1 DEF MulticastInv, Shape
<1> QED BY <1>2, <1>6, <1>8 DEF MulticastInv

LEMMA MulticastKeeps ==
  ASSUME IsFiniteSet(Multicasts), MulticastInv, [Next]_vars
  PROVE  MulticastInv'
<1>1. CASE UNCHANGED vars
  <2>1. Shape' /\ RowsApart'
    BY <1>1 DEF vars, MulticastInv, Shape, RowsApart, Instances
  <2>2. Instances' = Instances
    BY <1>1 DEF vars, Instances
  <2>3. Manager'
    BY <1>1, <2>2, ManagerStays DEF vars, MulticastInv, SameServer
  <2>4. Subscribers'
    BY <1>1, SubscribersStay DEF vars, MulticastInv
  <2> QED BY <2>1, <2>3, <2>4 DEF MulticastInv
<1>2. CASE \E i \in Instances : ServerStep(i)
  BY <1>2, ServerKeeps DEF MulticastInv
<1>3. CASE \E a \in Admins : AdminStep(a)
  BY <1>3, CreateKeeps, ReadRowKeeps, WriteRowKeeps, DoStartKeeps, DoStopKeeps, DoForgetKeeps,
     DoDeleteKeeps DEF AdminStep
<1>4. CASE \E s \in Sessions : SessionStep(s)
  <2>1. UNCHANGED rows
    BY <1>4 DEF SessionStep, Lookup, AddSubscriber, Bind, Unbind, RemoveSubscriber
  <2> QED BY <1>4, <2>1, SessionKeeps DEF MulticastInv, RowsApart
<1>5. CASE Restart
  <2>1. UNCHANGED rows
    BY <1>5 DEF Restart, RestoreInOrder
  <2> QED BY <1>5, <2>1, RestartKeeps DEF MulticastInv, RowsApart
<1> QED BY <1>1, <1>2, <1>3, <1>4, <1>5 DEF Next

LEMMA MulticastStarts == Init => MulticastInv
<1> SUFFICES ASSUME Init PROVE MulticastInv
  OBVIOUS
<1>1. Running = {} /\ Instances = {}
  BY DEF Init, Running, Instances
<1>2. Shape
  <2>1. admin \in [Admins -> RequestType] /\ \A a \in Admins : Asked(admin[a])
    BY DEF Init, NoRequest, Request, RequestType, AdminPCs, Asked, Starting, Forgets
  <2> QED BY <1>1, <2>1 DEF Init, Shape
<1>3. RowsApart
  BY DEF Init, RowsApart
<1> QED BY <1>1, <1>2, <1>3 DEF Init, MulticastInv, Manager, ItemsNamed, PortsApart, Closing, Enabled,
     Known, Subscribers, JoinedAtPort, SubscribersExact

(* Whatever administrators, servers and sessions interleave, an instance   *)
(* that has its port is the one its multicast names, or is closed, or was  *)
(* left behind by a start on another port (multicast_manager.go).          *)
THEOREM NoServerOrphaned ==
  ASSUME IsFiniteSet(Multicasts)
  PROVE  Spec => []NoOrphanServer
<1>1. MulticastInv => NoOrphanServer
  BY DEF MulticastInv, Manager, Known, NoOrphanServer
<1> QED BY <1>1, MulticastStarts, MulticastKeeps, PTL DEF Spec

(* The subscribers of a running endpoint are the sessions that joined it   *)
(* and have not ended: AddSubscriber and RemoveSubscriber each look the    *)
(* endpoint up by its port and find the same one (multicast_manager.go).   *)
THEOREM SubscribersAreExact ==
  ASSUME IsFiniteSet(Multicasts)
  PROVE  Spec => []SubscribersExact
<1>1. MulticastInv => SubscribersExact
  BY DEF MulticastInv, Subscribers
<1> QED BY <1>1, MulticastStarts, MulticastKeeps, PTL DEF Spec

LEMMA MulticastTyped == MulticastInv => TypeOK
<1>1. MulticastInv => \A i \in Instances : inst[i] \in InstType
  BY DEF MulticastInv, Shape, Instances
<1> QED BY <1>1 DEF MulticastInv, Shape, TypeOK, InstType, Instances

(* No two rows of the table have one port, and no two servers: each of     *)
(* rows and instances is its multicast's own (multicast_manager.go).       *)
THEOREM EndpointsApart ==
  ASSUME IsFiniteSet(Multicasts)
  PROVE  Spec => [](TypeOK /\ RowsApart /\ PortsApart)
<1>1. MulticastInv => TypeOK /\ RowsApart /\ PortsApart
  BY MulticastTyped DEF MulticastInv, Manager
<1> QED BY <1>1, MulticastStarts, MulticastKeeps, PTL DEF Spec

-----------------------------------------------------------------------------
(* The types of the requests' variables.                                   *)

CountsType == [connections : Int, bytes : Nat]
RequestsShape ==
  /\ RequestsTypeOK /\ mode \in Modes /\ given \in CountsType
  /\ copy \in [Writers -> CountsType \cup {NoAnswer}]
CallType == [mode : Modes, pc : CallPCs]

LEMMA PhasesTyped ==
  ASSUME RequestsShape
  PROVE  /\ call \in [Calls -> CallType] /\ answer \in [Calls -> Members \cup {NoAnswer}]
         /\ delivery \in [Calls -> SUBSET Members]
         /\ counts \in CountsType /\ recorded \in Nat /\ CallShape
  BY DEF RequestsShape, RequestsTypeOK, CallType, CallPCs, CallShape, CountsType

(* A handler's step: one phase, one answer, the row.                       *)
LEMMA HandlerTyped ==
  ASSUME RequestsShape, UNCHANGED endpointVars, drift' \in BOOLEAN,
         call' \in [Calls -> CallType], answer' \in [Calls -> Members \cup {NoAnswer}],
         delivery' \in [Calls -> SUBSET Members],
         counts' \in CountsType, recorded' \in Nat
  PROVE  RequestsShape'
  BY DEF RequestsShape, RequestsTypeOK, CallType, CallPCs, CountsType, endpointVars

LEMMA ExecutesTyped ==
  ASSUME RequestsShape, NEW new \in CountsType, Executes(new)
  PROVE  counts' \in CountsType /\ drift' \in BOOLEAN
  BY DEF Executes, Upset, RequestsShape, RequestsTypeOK, CountsType

LEMMA HandlerShaped ==
  ASSUME RequestsShape, NEW q \in Calls, HandlerStep(q)
  PROVE  RequestsShape'
<1>1. /\ call \in [Calls -> CallType] /\ answer \in [Calls -> Members \cup {NoAnswer}]
      /\ delivery \in [Calls -> SUBSET Members]
      /\ counts \in CountsType /\ recorded \in Nat /\ CallShape /\ drift \in BOOLEAN
      /\ mode \in Modes /\ waiting \in SUBSET Members
  BY PhasesTyped DEF RequestsShape, RequestsTypeOK
<1>2. ASSUME NEW from, NEW to \in CallPCs, HandlerGoes(q, from, to)
      PROVE  call' \in [Calls -> CallType]
  BY <1>1, <1>2 DEF HandlerGoes, CallType
<1>3. answer' = [answer EXCEPT ![q] = NoAnswer] => answer' \in [Calls -> Members \cup {NoAnswer}]
  BY <1>1
<1>4. /\ [counts EXCEPT !.connections = @ + 1] \in CountsType
      /\ [counts EXCEPT !.connections = @ - 1] \in CountsType
      /\ [counts EXCEPT !.bytes = @ + 1] \in CountsType
  BY <1>1 DEF CountsType
<1>5. CASE Accept(q)
  <2>1. Handler(mode, "fan out") \in CallType
    BY <1>1 DEF Handler, CallType, CallPCs
  <2>2. call' \in [Calls -> CallType]
    BY <1>1, <1>5, <2>1 DEF Accept
  <2> QED BY <1>1, <1>5, <2>2, HandlerTyped DEF Accept
<1>6. CASE FanOut(q)
  <2>1. \E to \in {"wait", "count", "done"} : HandlerGoes(q, "fan out", to)
    BY <1>6 DEF FanOut, HandlerGoes
  <2>2. call' \in [Calls -> CallType]
    BY <1>2, <2>1 DEF CallPCs
  <2>3. delivery' \in [Calls -> SUBSET Members]
    <3>1. delivery' = [delivery EXCEPT ![q] = waiting] \/ delivery' = delivery
      BY <1>6 DEF FanOut
    <3> QED BY <1>1, <3>1
  <2> QED BY <1>1, <1>6, <2>2, <2>3, HandlerTyped DEF FanOut
<1>7. CASE TimeOut(q)
  <2>1. call' \in [Calls -> CallType]
    BY <1>2, <1>7 DEF TimeOut, CallPCs
  <2> QED BY <1>1, <1>3, <1>7, <2>1, HandlerTyped DEF TimeOut
<1>8. CASE TakeAnswer(q)
  <2>1. call' \in [Calls -> CallType]
    BY <1>2, <1>8 DEF TakeAnswer, CallPCs
  <2> QED BY <1>1, <1>8, <2>1, HandlerTyped DEF TakeAnswer
<1>9. CASE Count(q)
  <2>1. AfterCount(q) \in CallPCs
    BY DEF AfterCount, CallPCs
  <2>2. call' \in [Calls -> CallType]
    BY <1>2, <1>9, <2>1 DEF Count
  <2>3. counts' \in CountsType /\ drift' \in BOOLEAN
    BY <1>4, <1>9, ExecutesTyped DEF Count
  <2> QED BY <1>1, <1>9, <2>2, <2>3, HandlerTyped DEF Count
<1>10. CASE AddBytes(q)
  <2>1. call' \in [Calls -> CallType]
    BY <1>2, <1>10 DEF AddBytes, CallPCs
  <2>2. counts' \in CountsType /\ drift' \in BOOLEAN
    BY <1>4, <1>10, ExecutesTyped DEF AddBytes
  <2> QED BY <1>1, <1>10, <2>1, <2>2, HandlerTyped DEF AddBytes
<1>11. CASE Uncount(q)
  <2>1. call' \in [Calls -> CallType]
    BY <1>2, <1>11 DEF Uncount, CallPCs
  <2>2. counts' \in CountsType /\ drift' \in BOOLEAN
    BY <1>4, <1>11, ExecutesTyped DEF Uncount
  <2> QED BY <1>1, <1>3, <1>11, <2>1, <2>2, HandlerTyped DEF Uncount
<1> QED BY <1>5, <1>6, <1>7, <1>8, <1>9, <1>10, <1>11 DEF HandlerStep

LEMMA RequestsShaped ==
  ASSUME RequestsShape, [RequestsNext]_requestVars
  PROVE  RequestsShape'
<1>1. /\ call \in [Calls -> CallType] /\ answer \in [Calls -> Members \cup {NoAnswer}]
      /\ delivery \in [Calls -> SUBSET Members]
      /\ counts \in CountsType /\ recorded \in Nat /\ drift \in BOOLEAN
      /\ mode \in Modes /\ waiting \subseteq Members /\ active \in BOOLEAN
      /\ given \in CountsType /\ copy \in [Writers -> CountsType \cup {NoAnswer}]
  BY PhasesTyped DEF RequestsShape, RequestsTypeOK
<1>2. ASSUME NEW q \in Calls, NEW s \in Members, Answered(q, s) \/ NotAnswered(q, s)
      PROVE  RequestsShape'
  <2>1. /\ delivery' = [delivery EXCEPT ![q] = @ \ {s}]
        /\ UNCHANGED <<endpointVars, call, counts, drift, recorded>>
        /\ answer' = [answer EXCEPT ![q] = s] \/ answer' = answer
    BY <1>2 DEF Answered, NotAnswered, DeliveryEnds
  <2>2. delivery' \in [Calls -> SUBSET Members]
    BY <1>1, <2>1
  <2>3. answer' \in [Calls -> Members \cup {NoAnswer}]
    BY <1>1, <2>1
  <2> QED BY <1>1, <2>1, <2>2, <2>3, HandlerTyped
<1>3. ASSUME NEW c \in CountsType, WritesBack(c) PROVE counts' \in CountsType /\ drift' \in BOOLEAN
  BY <1>1, <1>3 DEF WritesBack
<1>4. ASSUME NEW a \in Writers, ReadCounts(a) \/ WriteCounts(a) PROVE RequestsShape'
  <2>1. CASE ReadCounts(a)
    <3>1. copy' \in [Writers -> CountsType \cup {NoAnswer}]
      BY <1>1, <2>1 DEF ReadCounts
    <3> QED BY <2>1, <3>1 DEF ReadCounts, RequestsShape, RequestsTypeOK
  <2>2. CASE WriteCounts(a)
    <3>1. copy' \in [Writers -> CountsType \cup {NoAnswer}]
      BY <1>1, <2>2 DEF WriteCounts
    <3>2. copy[a] \in CountsType
      BY <1>1, <2>2 DEF WriteCounts
    <3>3. counts' \in CountsType /\ drift' \in BOOLEAN
      BY <1>3, <2>2, <3>2 DEF WriteCounts
    <3> QED BY <2>2, <3>1, <3>3 DEF WriteCounts, RequestsShape, RequestsTypeOK, CountsType
  <2> QED BY <1>4, <2>1, <2>2
<1>5. CASE StopEndpoint \/ SaveGiven
  <2>1. counts' \in CountsType /\ drift' \in BOOLEAN
    BY <1>1, <1>3, <1>5 DEF StopEndpoint, SaveGiven
  <2>2. /\ active' \in BOOLEAN /\ waiting' \subseteq Members
        /\ UNCHANGED <<mode, given, copy, call, answer, delivery, recorded>>
    BY <1>1, <1>5 DEF StopEndpoint, SaveGiven, endpointVars
  <2> QED BY <2>1, <2>2 DEF RequestsShape, RequestsTypeOK, CountsType
<1>6. CASE StartEndpoint
  BY <1>1, <1>6 DEF StartEndpoint, RequestsShape, RequestsTypeOK
<1>7. CASE \E s \in Members : Join(s) \/ Leave(s)
  BY <1>1, <1>7 DEF Join, Leave, RequestsShape, RequestsTypeOK
<1>8. CASE EndProcess
  <2>1. call' \in [Calls -> CallType]
    BY <1>1, <1>8 DEF EndProcess, CallType, CallPCs
  <2>2. /\ answer' \in [Calls -> Members \cup {NoAnswer}]
        /\ delivery' \in [Calls -> SUBSET Members]
        /\ copy' \in [Writers -> CountsType \cup {NoAnswer}]
    BY <1>8 DEF EndProcess
  <2>3. /\ active' \in BOOLEAN /\ waiting' \subseteq Members /\ drift' \in BOOLEAN
        /\ given' \in CountsType /\ UNCHANGED <<mode, counts, recorded>>
    BY <1>1, <1>8 DEF EndProcess
  <2> QED BY <1>1, <2>1, <2>2, <2>3 DEF RequestsShape, RequestsTypeOK, CallType, CallPCs, CountsType
<1>9. CASE UNCHANGED requestVars
  BY <1>9 DEF requestVars, RequestsShape, RequestsTypeOK
<1> QED BY <1>2, <1>4, <1>5, <1>6, <1>7, <1>8, <1>9, HandlerShaped DEF RequestsNext

LEMMA RequestsStart == RequestsInit => RequestsShape
<1> SUFFICES ASSUME RequestsInit PROVE RequestsShape
  OBVIOUS
<1>1. call \in [Calls -> CallType]
  BY DEF RequestsInit, Handler, Modes, CallType, CallPCs
<1>2. counts \in CountsType /\ given \in CountsType
  BY DEF RequestsInit, CountsType
<1> QED BY <1>1, <1>2 DEF RequestsInit, RequestsShape, RequestsTypeOK, CallType, CallPCs, CountsType

(* The endpoints and the requests have their types: bytes never go below   *)
(* 0, whatever copies of the row are written back (multicast_manager.go).  *)
THEOREM MulticastIsTyped ==
  ASSUME IsFiniteSet(Multicasts)
  PROVE  MulticastSpec => []MulticastTypeOK
<1> DEFINE Both == MulticastInv /\ RequestsShape
<1>1. MulticastInit => Both
  BY MulticastStarts, RequestsStart DEF MulticastInit
<1>2. Both /\ [MulticastNext]_multicastVars => Both'
  <2> SUFFICES ASSUME Both, [MulticastNext]_multicastVars PROVE Both'
    OBVIOUS
  <2>1. [Next]_vars /\ [RequestsNext]_requestVars
    BY DEF MulticastNext, multicastVars
  <2> QED BY <2>1, MulticastKeeps, RequestsShaped
<1>3. Both => MulticastTypeOK
  BY MulticastTyped DEF RequestsShape, MulticastTypeOK
<1> QED BY <1>1, <1>2, <1>3, PTL DEF MulticastSpec

(* A behaviour of both is one of either, so what is proved of the endpoints*)
(* and of the requests holds of what the run checks.                       *)
THEOREM PartsRun == MulticastSpec => Spec /\ RequestsSpec
<1>1. MulticastInit => Init /\ RequestsInit
  BY DEF MulticastInit
<1>2. [MulticastNext]_multicastVars => [Next]_vars /\ [RequestsNext]_requestVars
  BY DEF MulticastNext, multicastVars
<1> QED BY <1>1, <1>2, PTL DEF MulticastSpec, Spec, RequestsSpec
=============================================================================
