--------------------------- MODULE Tunnel_proofs ---------------------------
(***************************************************************************)
(* Proofs about Tunnel, for every number of callers and connections and    *)
(* every retry limit.                                                      *)
(***************************************************************************)
EXTENDS Tunnel, FiniteSetTheorems, TLAPS

(***************************************************************************)
(* Type correctness: whatever the interleaving, every variable keeps its   *)
(* type; in particular w.n never goes negative (waitGroup.Done tests it).  *)
(***************************************************************************)
LEMMA TypeStep == TypeOK /\ [Next]_vars => TypeOK'
<1> SUFFICES ASSUME TypeOK, [Next]_vars PROVE TypeOK'
  OBVIOUS
<1> USE TunnelAssumption DEF TypeOK, Conns, NoConn, LoopStates, LinkStates
<1>1. CASE Loop
  <2>1. CASE Connect
    BY <2>1 DEF Connect, At, callVars
  <2>2. CASE DialFails \/ Return
    <3>1. PICK connected \in BOOLEAN : EndAttempt(connected)
      BY <2>2 DEF DialFails, Return
    <3>2. UNCHANGED <<n, inner, activeConn, cur, connOpen, link, callVars, waiter, panic>>
      BY <2>2 DEF DialFails, Return
    <3> QED
      <4>1. attempt' \in Nat /\ pc' \in {"stopped", "connecting"}
        <5> HIDE DEF TypeOK
        <5>1. attempt \in Nat
          BY DEF TypeOK
        <5> QED
          BY <3>1, <5>1 DEF EndAttempt
      <4>2. rootDone' \in BOOLEAN
        BY <3>1 DEF EndAttempt
      <4> QED
        BY <3>2, <4>1, <4>2 DEF callVars
  <2>3. CASE Cancelled
    BY <2>3 DEF Cancelled, At, callVars
  <2>4. CASE SetActive
    BY <2>4 DEF SetActive, At, callVars
  <2>5. CASE WaitReturns
    BY <2>5 DEF WaitReturns, At, callVars
  <2>6. CASE Clear
    BY <2>6 DEF Clear, At, callVars
  <2>7. CASE BindDone
    BY <2>7 DEF BindDone, At, callVars
  <2>8. CASE AddN
    BY <2>8 DEF AddN, At, callVars
  <2>9. CASE BindDoneInner
    BY <2>9 DEF BindDoneInner, InnerAdd, At, callVars
  <2>10. CASE AddInner
    BY <2>10 DEF AddInner, InnerAdd, At, callVars
  <2> QED
    BY <1>1, <2>1, <2>2, <2>3, <2>4, <2>5, <2>6, <2>7, <2>8, <2>9, <2>10
       DEF Loop
<1>2. ASSUME NEW c \in Conns, Link(c) PROVE TypeOK'
  <2>1. CASE LinkClose(c) \/ LinkCheck(c)
    BY <2>1 DEF LinkClose, LinkCheck, LinkAt, loopVars, callVars
  <2>2. CASE LinkDone(c)
    BY <2>2 DEF LinkDone, LinkAt, loopVars, callVars
  <2>3. CASE LinkDoneInner(c)
    BY <2>3 DEF LinkDoneInner, InnerAdd, LinkAt, loopVars, callVars
  <2> QED
    BY <1>2, <2>1, <2>2, <2>3 DEF Link
<1>3. ASSUME NEW p \in Callers, GetSSH(p) \/ Waiter(p) \/ SelectTimeout(p)
      PROVE  TypeOK'
  <2>1. CASE Call(p) \/ Read(p)
    BY <2>1 DEF Call, Read, Finish, CallerAt, loopVars
  <2>2. CASE SelectCancelled(p) \/ SelectTimeout(p) \/ SelectReady(p) \/ Reread(p)
    BY <2>2 DEF SelectCancelled, SelectTimeout, SelectReady, Reread, Finish,
                CallerAt, loopVars
  <2>3. CASE WaiterEnters(p) \/ WaiterWakes(p)
    BY <2>3 DEF WaiterEnters, WaiterWakes, WaiterAt, loopVars, callVars
  <2> QED
    BY <1>3, <2>1, <2>2, <2>3 DEF GetSSH, Waiter
<1>4. CASE ConnDrops \/ Close
  BY <1>4 DEF ConnDrops, Close, loopVars, callVars
<1>5. CASE UNCHANGED vars
  BY <1>5 DEF vars, loopVars, callVars
<1> QED
  BY <1>1, <1>2, <1>3, <1>4, <1>5 DEF Next, Environment

(* The initial state has the types.                                        *)
LEMMA InitType == Init => TypeOK
<1> SUFFICES ASSUME Init PROVE TypeOK
  OBVIOUS
<1>1. cur \in 0..MaxBinds
  BY TunnelAssumption DEF Init
<1>2. connOpen \in BOOLEAN /\ rootDone \in BOOLEAN
  BY DEF Init
<1> QED
  BY <1>1, <1>2 DEF Init, TypeOK, NoConn, LoopStates, LinkStates

(* Every variable keeps its type in every behaviour of the tunnel.         *)
THEOREM TypeCorrect == Spec => []TypeOK
  BY InitType, TypeStep, PTL DEF Spec

-----------------------------------------------------------------------------
(***************************************************************************)
(* The strengthening.  Only the loop adds to w.n, so between its Done and  *)
(* its Add the counter is 0; a connection not yet bound has no link; and   *)
(* activeConn is set only while the loop is inside BindSSH.                *)
(***************************************************************************)
OpenWhileBound == pc \in {"doneInner", "waiting", "addN"} => n = 0
NoEarlyLink == \A c \in Conns : c > cur => link[c] = "none"
BoundInside ==
  activeConn # NoConn =>
    /\ activeConn = cur
    /\ pc \in {"done", "doneInner", "waiting", "addN", "addInner", "clear"}

IInv == /\ TypeOK
        /\ CounterMatches /\ OpenWhileBound /\ NoEarlyLink
        /\ BoundInside /\ NegativeOnlyInAdd /\ NoDoubleBind

(* The types of the current connection and of the link goroutines.         *)
LEMMA Types ==
  ASSUME TypeOK
  PROVE  cur \in Nat /\ link \in [Conns -> LinkStates]
<1>1. cur \in 0..MaxBinds
  BY DEF TypeOK
<1>2. cur \in Nat
  BY <1>1, TunnelAssumption
<1> QED
  BY <1>2 DEF TypeOK

(* The set of goroutines halfway through a Done is finite.                 *)
LEMMA PendingFinite ==
  IsFiniteSet(Pending) /\ Cardinality(Pending) \in Nat
<1>1. IsFiniteSet(Conns)
  BY TunnelAssumption, FS_Interval DEF Conns
<1>2. Pending \in SUBSET Conns
  BY DEF Pending
<1>3. IsFiniteSet(Pending)
  BY <1>1, <1>2, FS_Subset
<1> QED
  BY <1>3, FS_CardinalityType

(* A link that takes its Done from w.n enters Pending, one that completes  *)
(* it on the inner counter leaves it, and no other step changes Pending.   *)
LEMMA PendingEnter ==
  ASSUME NEW c \in Conns, TypeOK, link[c] # "innerDone",
         link' = [link EXCEPT ![c] = "innerDone"]
  PROVE  Cardinality(Pending') = Cardinality(Pending) + 1
<1>1. Pending' = Pending \cup {c} /\ c \notin Pending
  BY DEF Pending, TypeOK
<1> QED
  BY <1>1, PendingFinite, FS_AddElement

(* A goroutine that leaves the set of those that owe a Done.               *)
LEMMA PendingLeave ==
  ASSUME NEW c \in Conns, TypeOK, link[c] = "innerDone",
         link' = [link EXCEPT ![c] = "check"]
  PROVE  /\ Cardinality(Pending') = Cardinality(Pending) - 1
         /\ Cardinality(Pending) > 0
<1>1. Pending' = Pending \ {c} /\ c \in Pending
  BY DEF Pending, TypeOK
<1>2. Cardinality(Pending') = Cardinality(Pending) - 1
  BY <1>1, PendingFinite, FS_RemoveElement
<1>3. IsFiniteSet(Pending') /\ Cardinality(Pending') \in Nat
  BY <1>1, PendingFinite, FS_RemoveElement, FS_CardinalityType
<1> QED
  BY <1>2, <1>3, PendingFinite

(* A step that changes no goroutine of the set.                            *)
LEMMA PendingSame ==
  ASSUME NEW c \in Conns, NEW l, TypeOK,
         link[c] # "innerDone", l # "innerDone",
         link' = [link EXCEPT ![c] = l]
  PROVE  Pending' = Pending
  BY DEF Pending, TypeOK

(* The loop's own steps.                                                   *)
LEMMA LoopStep ==
  ASSUME IInv, Loop
  PROVE  /\ CounterMatches' /\ OpenWhileBound' /\ NoEarlyLink'
         /\ BoundInside' /\ NegativeOnlyInAdd' /\ NoDoubleBind'
<1> DEFINE k == Cardinality(Pending)
<1>0. /\ k \in Nat /\ n \in 0..1 /\ cur \in Nat
      /\ inner = n + k + (IF pc = "doneInner" THEN 1 ELSE 0)
                       - (IF pc = "addInner" THEN 1 ELSE 0)
  BY PendingFinite, Types DEF IInv, CounterMatches
<1>L. link' = link => Pending' = Pending
  BY DEF Pending
<1> HIDE DEF k
<1>1. CASE Connect
  <2>1. cur + 1 \in Conns /\ cur' = cur + 1
    BY <1>1, <1>0, TunnelAssumption DEF Connect, Conns
  <2>2. link[cur + 1] = "none"
    BY <2>1, <1>0 DEF IInv, NoEarlyLink
  <2>3. Pending' = Pending
    BY <1>1, <2>1, <2>2, PendingSame DEF Connect, IInv
  <2>4. activeConn = NoConn
    BY <1>1 DEF Connect, At, IInv, BoundInside
  <2>5. CounterMatches'
    BY <1>0, <1>1, <2>3 DEF CounterMatches, Connect, At, k
  <2>6. NoEarlyLink'
    <3>1. link' = [link EXCEPT ![cur + 1] = "waiting"]
      BY <1>1 DEF Connect
    <3> QED
      BY <1>0, <2>1, <3>1, Types, TunnelAssumption DEF NoEarlyLink, IInv, Conns
  <2> QED
    BY <1>1, <2>4, <2>5, <2>6 DEF Connect, At, IInv, OpenWhileBound, BoundInside,
       NegativeOnlyInAdd, NoDoubleBind
<1>2. CASE DialFails \/ Return \/ Cancelled
  <2>1. /\ UNCHANGED <<n, inner, activeConn, cur, link, panic>>
        /\ pc' \in {"stopped", "connecting"} /\ panic = "none"
        /\ pc \in {"connecting", "returned"}
    BY <1>2 DEF DialFails, Return, Cancelled, EndAttempt, At
  <2>2. activeConn = NoConn
    BY <2>1 DEF IInv, BoundInside
  <2> QED
    BY <2>1, <2>2, <1>0, <1>L DEF CounterMatches, OpenWhileBound, NoEarlyLink,
       BoundInside, NegativeOnlyInAdd, NoDoubleBind, IInv, k
<1>3. CASE SetActive
  <2>1. activeConn = NoConn /\ pc = "bind" /\ panic = "none"
    BY <1>3 DEF SetActive, At, IInv, BoundInside
  <2>2. /\ activeConn' = cur /\ pc' = "done" /\ panic' = "none"
        /\ UNCHANGED <<n, inner, cur, link>>
    BY <1>3, <2>1 DEF SetActive
  <2> QED
    BY <2>1, <2>2, <1>0, <1>L DEF CounterMatches, OpenWhileBound, NoEarlyLink,
       BoundInside, NegativeOnlyInAdd, NoDoubleBind, IInv, k
<1>4. CASE BindDone
  <2>1. /\ pc = "done" /\ panic = "none"
        /\ UNCHANGED <<inner, activeConn, cur, link, panic>>
        /\ \/ n = 1 /\ n' = 0 /\ pc' = "doneInner"
           \/ n = 0 /\ n' = 0 /\ pc' = "waiting"
    BY <1>4, <1>0 DEF BindDone, At
  <2> QED
    BY <2>1, <1>0, <1>L DEF CounterMatches, OpenWhileBound, NoEarlyLink,
       BoundInside, NegativeOnlyInAdd, NoDoubleBind, IInv, k
<1>5. CASE BindDoneInner
  <2>1. /\ pc = "doneInner" /\ pc' = "waiting" /\ n = 0 /\ panic = "none"
        /\ UNCHANGED <<n, activeConn, cur, link>> /\ inner' = inner - 1
        /\ panic' = IF inner - 1 < 0 THEN "negative" ELSE panic
    BY <1>5, <1>0 DEF BindDoneInner, At, InnerAdd, IInv, OpenWhileBound
  <2>2. inner = k + 1 /\ panic' = panic
    BY <2>1, <1>0
  <2> QED
    BY <2>1, <2>2, <1>0, <1>L DEF CounterMatches, OpenWhileBound, NoEarlyLink,
       BoundInside, NegativeOnlyInAdd, NoDoubleBind, IInv, k
<1>6. CASE WaitReturns
  <2>1. /\ pc = "waiting" /\ pc' = "addN" /\ panic = "none"
        /\ UNCHANGED <<n, inner, activeConn, cur, link, panic>>
    BY <1>6 DEF WaitReturns, At
  <2> QED
    BY <2>1, <1>0, <1>L DEF CounterMatches, OpenWhileBound, NoEarlyLink,
       BoundInside, NegativeOnlyInAdd, NoDoubleBind, IInv, k
<1>7. CASE AddN
  <2>1. /\ pc = "addN" /\ pc' = "addInner" /\ panic = "none"
        /\ n = 0 /\ n' = 1
        /\ UNCHANGED <<inner, activeConn, cur, link, panic>>
    BY <1>7, <1>0 DEF AddN, At, IInv, OpenWhileBound
  <2> QED
    BY <2>1, <1>0, <1>L DEF CounterMatches, OpenWhileBound, NoEarlyLink,
       BoundInside, NegativeOnlyInAdd, NoDoubleBind, IInv, k
<1>8. CASE AddInner
  <2>1. /\ pc = "addInner" /\ pc' = "clear" /\ panic = "none"
        /\ UNCHANGED <<n, activeConn, cur, link>> /\ inner' = inner + 1
        /\ panic' = IF inner + 1 < 0 THEN "negative" ELSE panic
    BY <1>8 DEF AddInner, At, InnerAdd
  <2>2. inner + 1 = n + k /\ panic' = panic
    BY <2>1, <1>0
  <2> QED
    BY <2>1, <2>2, <1>0, <1>L DEF CounterMatches, OpenWhileBound, NoEarlyLink,
       BoundInside, NegativeOnlyInAdd, NoDoubleBind, IInv, k
<1>9. CASE Clear
  <2>1. /\ pc = "clear" /\ pc' = "returned" /\ panic = "none"
        /\ activeConn' = NoConn
        /\ UNCHANGED <<n, inner, cur, link, panic>>
    BY <1>9 DEF Clear, At
  <2> QED
    BY <2>1, <1>0, <1>L DEF CounterMatches, OpenWhileBound, NoEarlyLink,
       BoundInside, NegativeOnlyInAdd, NoDoubleBind, IInv, k
<1> QED
  BY <1>1, <1>2, <1>3, <1>4, <1>5, <1>6, <1>7, <1>8, <1>9 DEF Loop

(* The steps of a link goroutine, of the current or of an older connection.*)
LEMMA LinkStep ==
  ASSUME IInv, NEW c \in Conns, Link(c)
  PROVE  /\ CounterMatches' /\ OpenWhileBound' /\ NoEarlyLink'
         /\ BoundInside' /\ NegativeOnlyInAdd' /\ NoDoubleBind'
<1> DEFINE k == Cardinality(Pending)
<1>0. /\ k \in Nat /\ n \in 0..1 /\ cur \in Nat
      /\ inner = n + k + (IF pc = "doneInner" THEN 1 ELSE 0)
                       - (IF pc = "addInner" THEN 1 ELSE 0)
  BY PendingFinite, Types DEF IInv, CounterMatches
<1>1. /\ UNCHANGED <<pc, cur, activeConn>> /\ panic = "none"
      /\ link[c] # "none" /\ link \in [Conns -> LinkStates]
      /\ \E l : link' = [link EXCEPT ![c] = l]
  BY DEF Link, LinkClose, LinkCheck, LinkDone, LinkDoneInner, LinkAt, loopVars,
         IInv, TypeOK
<1>2. NoEarlyLink' /\ BoundInside'
  BY <1>1 DEF IInv, NoEarlyLink, BoundInside
<1> HIDE DEF k
<1>3. CASE LinkClose(c) \/ LinkCheck(c)
  <2>1. UNCHANGED <<n, inner, panic>>
    BY <1>3 DEF LinkClose, LinkCheck
  <2>2. Pending' = Pending
    BY <1>3, PendingSame DEF LinkClose, LinkCheck, LinkAt, IInv
  <2> QED
    BY <1>0, <1>1, <1>2, <2>1, <2>2 DEF CounterMatches, OpenWhileBound,
       NegativeOnlyInAdd, NoDoubleBind, IInv, k
<1>4. CASE LinkDone(c)
  <2>1. CASE n = 0
    <3>1. UNCHANGED <<n, inner, panic>> /\ Pending' = Pending
      BY <1>4, <2>1, PendingSame DEF LinkDone, LinkAt, IInv
    <3> QED
      BY <1>0, <1>1, <1>2, <3>1 DEF CounterMatches, OpenWhileBound,
         NegativeOnlyInAdd, NoDoubleBind, IInv, k
  <2>2. CASE n = 1
    <3>1. UNCHANGED <<inner, panic>> /\ n' = 0
      BY <1>4, <2>2 DEF LinkDone
    <3>2. Cardinality(Pending') = k + 1
      BY <1>4, <2>2, PendingEnter DEF LinkDone, LinkAt, IInv, k
    <3> QED
      BY <1>0, <1>1, <1>2, <2>2, <3>1, <3>2 DEF CounterMatches, OpenWhileBound,
         NegativeOnlyInAdd, NoDoubleBind, IInv
  <2> QED
    BY <1>0, <2>1, <2>2
<1>5. CASE LinkDoneInner(c)
  <2>1. /\ n' = n /\ inner' = inner - 1
        /\ panic' = IF inner - 1 < 0 THEN "negative" ELSE panic
    BY <1>5 DEF LinkDoneInner, InnerAdd
  <2>2. Cardinality(Pending') = k - 1 /\ k > 0
    BY <1>5, PendingLeave DEF LinkDoneInner, LinkAt, IInv, k
  <2>3. panic' # "none" => panic' = "negative" /\ pc = "addInner"
    BY <1>0, <1>1, <2>1, <2>2
  <2>4. panic' # "double bind"
    BY <1>1, <2>1
  <2> QED
    BY <1>0, <1>1, <1>2, <2>1, <2>2, <2>3, <2>4 DEF CounterMatches, OpenWhileBound,
       NegativeOnlyInAdd, NoDoubleBind, IInv
<1> QED
  BY <1>3, <1>4, <1>5 DEF Link

(* Everything else leaves the counters and the connection alone.           *)
LEMMA OtherStep ==
  ASSUME IInv,
         \/ \E p \in Callers : GetSSH(p) \/ Waiter(p)
         \/ Environment
         \/ UNCHANGED vars
  PROVE  /\ CounterMatches' /\ OpenWhileBound' /\ NoEarlyLink'
         /\ BoundInside' /\ NegativeOnlyInAdd' /\ NoDoubleBind'
<1>1. /\ UNCHANGED <<n, inner, activeConn, pc, cur, link>>
      /\ panic' \in {panic, "reused"}
  <2>1. ASSUME NEW p \in Callers, GetSSH(p) \/ SelectTimeout(p)
        PROVE  UNCHANGED <<n, inner, activeConn, pc, cur, link, panic>>
    BY <2>1 DEF GetSSH, Call, Read, SelectCancelled, SelectReady, Reread,
       SelectTimeout, loopVars
  <2>2. ASSUME NEW p \in Callers, Waiter(p)
        PROVE  /\ UNCHANGED <<n, inner, activeConn, pc, cur, link>>
               /\ panic' \in {panic, "reused"}
    BY <2>2 DEF Waiter, WaiterEnters, WaiterWakes, loopVars
  <2>3. ASSUME ConnDrops \/ Close \/ UNCHANGED vars
        PROVE  UNCHANGED <<n, inner, activeConn, pc, cur, link, panic>>
    BY <2>3 DEF ConnDrops, Close, vars, loopVars
  <2> QED
    BY <2>1, <2>2, <2>3 DEF Environment
<1>2. Pending' = Pending
  BY <1>1 DEF Pending
<1> QED
  BY <1>1, <1>2 DEF IInv, CounterMatches, OpenWhileBound, NoEarlyLink,
     BoundInside, NegativeOnlyInAdd, NoDoubleBind

(***************************************************************************)
(* The inductive invariant holds in every reachable state.                 *)
(***************************************************************************)
THEOREM Invariance == Spec => []IInv
<1>1. Init => IInv
  <2> SUFFICES ASSUME Init PROVE IInv
    OBVIOUS
  <2>1. TypeOK
    BY InitType
  <2>2. Cardinality(Pending) = 0
    <3>1. Pending = {}
      BY DEF Init, Pending
    <3> QED
      BY <3>1, FS_EmptySet
  <2>3. CounterMatches
    BY <2>2 DEF Init, CounterMatches
  <2> QED
    BY <2>1, <2>3 DEF Init, IInv, OpenWhileBound, NoEarlyLink, BoundInside,
       NegativeOnlyInAdd, NoDoubleBind
<1>2. IInv /\ [Next]_vars => IInv'
  <2> SUFFICES ASSUME IInv, [Next]_vars PROVE IInv'
    OBVIOUS
  <2>1. TypeOK'
    BY TypeStep DEF IInv
  <2> QED
    BY <2>1, LoopStep, LinkStep, OtherStep DEF Next, IInv
<1> QED
  BY <1>1, <1>2, PTL DEF Spec

(* waitGroup.n and the inner WaitGroup never drift apart.                  *)
THEOREM CountersAgree == Spec => []CounterMatches
  BY Invariance, PTL DEF IInv

(* panic("double bind ssh") is dead code.                                  *)
THEOREM NeverDoubleBind == Spec => []NoDoubleBind
  BY Invariance, PTL DEF IInv

(* A WaitGroup below zero means a DoneAll ran between the halves of Add.   *)
THEOREM CrashWindow == Spec => []NegativeOnlyInAdd
  BY Invariance, PTL DEF IInv

(* Callers are only ever given the connection bound last.                  *)
THEOREM ActiveConnIsCurrent == Spec => []ActiveIsCurrent
<1>1. IInv => ActiveIsCurrent
  BY DEF IInv, BoundInside, ActiveIsCurrent
<1> QED
  BY <1>1, Invariance, PTL

-----------------------------------------------------------------------------
(***************************************************************************)
(* The retry count.  attempt never passes the limit because the loop tests *)
(* it before it waits for the next attempt.                                *)
(***************************************************************************)
Budget == MaxRetryCount >= 0 => attempt <= MaxRetryCount

(* Every step keeps what the count of attempts allows.                     *)
LEMMA BudgetStep ==
  ASSUME TypeOK, Budget, [Next]_vars
  PROVE  /\ Budget'
         /\ MaxRetryCount >= 0 /\ pc' = "stopped" /\ ~rootDone =>
              attempt' = MaxRetryCount \/ UNCHANGED <<pc, attempt>>
<1>0. attempt \in Nat /\ MaxRetryCount \in Int
  <2>1. attempt \in Nat
    BY DEF TypeOK
  <2>2. MaxRetryCount \in Int
    BY TunnelAssumption
  <2> QED
    BY <2>1, <2>2
<1>1. ASSUME NEW connected \in BOOLEAN, EndAttempt(connected)
      PROVE  /\ Budget'
             /\ MaxRetryCount >= 0 /\ pc' = "stopped" =>
                  attempt' = MaxRetryCount
  <2> DEFINE a == IF connected THEN 0 ELSE attempt
  <2>1. a \in Nat /\ (MaxRetryCount >= 0 => a <= MaxRetryCount)
    BY <1>0 DEF Budget
  <2> HIDE DEF a
  <2>2. CASE GiveUp(a)
    BY <1>0, <1>1, <2>1, <2>2 DEF EndAttempt, GiveUp, Budget, a
  <2>3. CASE ~GiveUp(a)
    BY <1>0, <1>1, <2>1, <2>3 DEF EndAttempt, GiveUp, Budget, a
  <2> QED
    BY <2>2, <2>3
<1>2. CASE DialFails \/ Return
  BY <1>1, <1>2 DEF DialFails, Return
<1>3. CASE Cancelled
  BY <1>3 DEF Cancelled, Budget
<1>4. CASE Loop /\ ~(DialFails \/ Return \/ Cancelled)
  <2>1. attempt' = attempt /\ pc' # "stopped"
    BY <1>4 DEF Loop, Connect, SetActive, BindDone, BindDoneInner, WaitReturns,
       AddN, AddInner, Clear, At
  <2> QED
    BY <2>1 DEF Budget
<1>5. CASE ~Loop
  <2>1. UNCHANGED <<pc, attempt>>
    BY <1>5 DEF Next, Environment, Link, GetSSH, Waiter, LinkClose, LinkCheck,
       LinkDone, LinkDoneInner, Call, Read, SelectCancelled, SelectReady, Reread,
       SelectTimeout, WaiterEnters, WaiterWakes, ConnDrops, Close, loopVars, vars
  <2> QED
    BY <2>1 DEF Budget
<1> QED
  BY <1>2, <1>3, <1>4, <1>5

(* The loop stops only with the root context cancelled, and nothing        *)
(* revives a context.                                                      *)
StoppedDone == pc = "stopped" => rootDone

(* Every step keeps what is known of a client that has given up.           *)
LEMMA StoppedStep ==
  ASSUME StoppedDone, [Next]_vars
  PROVE  StoppedDone'
<1>1. ASSUME NEW connected, EndAttempt(connected) PROVE StoppedDone'
  BY <1>1 DEF EndAttempt, StoppedDone
<1>2. CASE DialFails \/ Return
  BY <1>1, <1>2 DEF DialFails, Return
<1>3. CASE Cancelled
  BY <1>3, Zenon DEF Cancelled, StoppedDone
<1>6. CASE Loop /\ ~(DialFails \/ Return \/ Cancelled)
  <2>1. pc' # "stopped"
    BY <1>6 DEF Loop, Connect, SetActive, BindDone, BindDoneInner,
       WaitReturns, AddN, AddInner, Clear, At
  <2> QED
    BY <2>1 DEF StoppedDone
<1>4. CASE Close
  BY <1>4 DEF Close, StoppedDone
<1>5. CASE ~Loop /\ ~Close
  <2>1. UNCHANGED <<pc, rootDone>>
    BY <1>5 DEF Next, Environment, Link, GetSSH, Waiter, LinkClose, LinkCheck,
       LinkDone, LinkDoneInner, Call, Read, SelectCancelled, SelectReady, Reread,
       SelectTimeout, WaiterEnters, WaiterWakes, ConnDrops, loopVars, vars
  <2> QED
    BY <2>1 DEF StoppedDone
<1> QED
  BY <1>2, <1>3, <1>4, <1>5, <1>6

(***************************************************************************)
(* The client never starts more than MaxRetryCount retries in a row, and   *)
(* unless it is closed it gives up exactly there.                          *)
(***************************************************************************)
THEOREM RetriesExact == Spec => GivesUpAtTheCount
<1> DEFINE J == TypeOK /\ Budget /\ StoppedDone
<1>1. Init => J
  <2>1. Init => Budget /\ StoppedDone
    BY DEF Init, Budget, StoppedDone
  <2> QED
    BY <2>1, InitType
<1>2. J /\ [Next]_vars => J'
  BY TypeStep, BudgetStep, StoppedStep
<1>3. J /\ J' /\ [Next]_vars =>
        [MaxRetryCount >= 0 =>
           /\ attempt' <= MaxRetryCount
           /\ pc' = "stopped" /\ ~rootDone => attempt' = MaxRetryCount]_vars
  BY BudgetStep DEF Budget, StoppedDone
<1> QED
  BY <1>1, <1>2, <1>3, PTL DEF Spec, GivesUpAtTheCount
=============================================================================
