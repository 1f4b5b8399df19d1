------------------------------- MODULE Tunnel -------------------------------
(***************************************************************************)
(* How a tunnel hands its SSH connection to the proxied connections that   *)
(* need it: share/tunnel/tunnel.go and wg.go, driven by the client's       *)
(* connection loop of client/client_connect.go.                            *)
(*                                                                         *)
(* One thread (connectionLoop) dials, binds and waits for one connection   *)
(* after another.  Every BindSSH starts a goroutine, the "link", that      *)
(* closes the connection when its context is done and then opens the gate  *)
(* (activatingConn.DoneAll).  Every proxied connection is a caller of      *)
(* getSSH, and a caller that finds no connection starts a goroutine, its   *)
(* "waiter", parked in sync.WaitGroup.Wait.                                *)
(*                                                                         *)
(* The server runs the same tunnel for one connection only: a server-side  *)
(* session is the instance with MaxBinds = 1 and MaxRetryCount = 0, and    *)
(* Close is the failure of one of its proxies.                             *)
(*                                                                         *)
(* Loading w.n and swapping it are one step (the swap can only fail        *)
(* because another goroutine took n from 1 to 0, and then the load would   *)
(* have seen 0: n never exceeds 1, see CounterMatches); w.n and the inner  *)
(* WaitGroup are two variables changed in two steps, as in the code.       *)
(***************************************************************************)
EXTENDS Integers, FiniteSets

CONSTANTS
  Callers,        \* the proxied connections that call getSSH, once each
  MaxBinds,       \* bound: how many connections reach BindSSH
  MaxRetryCount   \* config.MaxRetryCount, -1 for unlimited

ASSUME TunnelAssumption ==
  /\ MaxBinds \in Nat \ {0}
  /\ MaxRetryCount \in Nat \cup {-1}

NoConn == 0               \* activeConn = nil
Conns == 1..MaxBinds      \* connections, in the order they are bound

VARIABLES
  n, inner,       \* waitGroup.n and the counter of its sync.WaitGroup
  activeConn,     \* Tunnel.activeConn
  pc, cur,        \* the loop's position and the last connection it bound
  connOpen,       \* is connection cur still open?
  attempt,        \* backoff.Attempt(), kept only when it is compared
  rootDone,       \* is the context of Start (of the session) done?
  link,           \* per connection: the goroutine started by BindSSH
  caller, waiter, \* per caller: its position, and that of its waiter
  got,            \* per caller: what getSSH returned
  panic           \* why the process died, "none" while it runs

loopVars == <<pc, cur, attempt>>
callVars == <<caller, got>>
vars == <<n, inner, activeConn, loopVars, connOpen, rootDone, link, callVars,
          waiter, panic>>

LoopStates == {"connecting", "bind", "done", "doneInner", "waiting", "addN",
               "addInner", "clear", "returned", "stopped"}
LinkStates == {"none", "waiting", "check", "cas", "innerDone", "end"}

TypeOK ==
  /\ n \in Nat /\ inner \in Int
  /\ activeConn \in Conns \cup {NoConn}
  /\ pc \in LoopStates
  /\ cur \in 0..MaxBinds /\ (pc \in {"connecting", "stopped"} \/ cur \in Conns)
  /\ connOpen \in BOOLEAN /\ rootDone \in BOOLEAN
  /\ attempt \in Nat
  /\ link \in [Conns -> LinkStates]
  /\ caller \in [Callers -> {"idle", "read", "select", "reread", "done"}]
  /\ waiter \in [Callers -> {"none", "wait", "parked", "released", "closed"}]
  /\ got \in [Callers -> Conns \cup {NoConn}]
  /\ panic \in {"none", "negative", "reused", "double bind"}

Init ==
  /\ n = 1 /\ inner = 1                  \* New: activatingConn.Add(1)
  /\ activeConn = NoConn
  /\ pc = "connecting" /\ cur = 0 /\ attempt = 0
  /\ connOpen = FALSE /\ rootDone = FALSE
  /\ link = [c \in Conns |-> "none"]
  /\ caller = [p \in Callers |-> "idle"] /\ got = [p \in Callers |-> NoConn]
  /\ waiter = [p \in Callers |-> "none"]
  /\ panic = "none"

-----------------------------------------------------------------------------
(* sync.WaitGroup: Add(d) on the inner counter.  Below zero it panics; at  *)
(* zero it releases the goroutines parked in Wait.                         *)
InnerAdd(d) ==
  /\ inner' = inner + d
  /\ panic' = IF inner + d < 0 THEN "negative" ELSE panic
  /\ waiter' = [p \in Callers |-> IF inner + d = 0 /\ waiter[p] = "parked"
                                  THEN "released" ELSE waiter[p]]

-----------------------------------------------------------------------------
(* Where the goroutines are.  A panic kills the process: none is anywhere  *)
(* after it.                                                               *)
At(l) == panic = "none" /\ pc = l
LinkAt(c, l) == panic = "none" /\ link[c] = l
CallerAt(p, l) == panic = "none" /\ caller[p] = l
WaiterAt(p, l) == panic = "none" /\ waiter[p] = l

-----------------------------------------------------------------------------
(* The client's connection loop.                                           *)

(* connectionOnce derives the context of a connection from the root and    *)
(* cancels it when it returns.                                             *)
CtxDone(c) == rootDone \/ c < cur \/ pc \in {"connecting", "stopped"}

(* Variant: one attempt too many. *)
GiveUpLate(a) == MaxRetryCount >= 0 /\ a > MaxRetryCount

GiveUp(a) == MaxRetryCount >= 0 /\ a >= MaxRetryCount

(* Variant: the backoff is reset after every attempt. *)
EndAttemptResets(connected) ==
  IF GiveUp(0)
  THEN pc' = "stopped" /\ rootDone' = TRUE /\ attempt' = 0
  ELSE pc' = "connecting" /\ rootDone' = rootDone /\ attempt' = 0

(* The end of an iteration: reset the backoff after a connection of more   *)
(* than 5s, give up (Client.Close cancels the root) or wait and retry.     *)
EndAttempt(connected) ==
  LET a == IF connected THEN 0 ELSE attempt IN
  IF GiveUp(a)
  THEN pc' = "stopped" /\ rootDone' = TRUE /\ attempt' = a
  ELSE /\ pc' = "connecting" /\ rootDone' = rootDone
       /\ attempt' = IF MaxRetryCount < 0 THEN 0 ELSE a + 1

DialFails ==
  /\ At("connecting") /\ ~rootDone
  /\ EndAttempt(FALSE)
  /\ UNCHANGED <<n, inner, activeConn, cur, connOpen, link, callVars, waiter, panic>>

(* Dial, handshake and config succeed: BindSSH starts its link goroutine.  *)
Connect ==
  /\ At("connecting") /\ ~rootDone /\ cur < MaxBinds
  /\ cur' = cur + 1 /\ pc' = "bind" /\ connOpen' = TRUE
  /\ link' = [link EXCEPT ![cur + 1] = "waiting"]
  /\ UNCHANGED <<n, inner, activeConn, attempt, rootDone, callVars, waiter, panic>>

(* The retry wait, or connectionOnce's first test, sees the root done.     *)
Cancelled ==
  /\ At("connecting") /\ rootDone
  /\ pc' = "stopped"
  /\ UNCHANGED <<n, inner, activeConn, cur, attempt, connOpen, rootDone, link,
                 callVars, waiter, panic>>

SetActive ==
  /\ At("bind")
  /\ IF activeConn # NoConn
     THEN panic' = "double bind" /\ UNCHANGED <<activeConn, pc>>
     ELSE activeConn' = cur /\ pc' = "done" /\ panic' = panic
  /\ UNCHANGED <<n, inner, cur, attempt, connOpen, rootDone, link, callVars, waiter>>

(* Variant: the gate is not opened when the connection is bound. *)
BindDoneMissing ==
  /\ At("done")
  /\ pc' = "waiting"
  /\ UNCHANGED <<n, inner, activeConn, cur, attempt, connOpen, rootDone, link,
                 callVars, waiter, panic>>

BindDone ==
  /\ At("done")
  /\ IF n > 0 THEN n' = n - 1 /\ pc' = "doneInner" ELSE n' = n /\ pc' = "waiting"
  /\ UNCHANGED <<inner, activeConn, cur, attempt, connOpen, rootDone, link,
                 callVars, waiter, panic>>

BindDoneInner ==
  /\ At("doneInner")
  /\ pc' = "waiting" /\ InnerAdd(-1)
  /\ UNCHANGED <<n, activeConn, cur, attempt, connOpen, rootDone, link, callVars>>

WaitReturns ==
  /\ At("waiting") /\ ~connOpen
  /\ pc' = "addN"
  /\ UNCHANGED <<n, inner, activeConn, cur, attempt, connOpen, rootDone, link,
                 callVars, waiter, panic>>

(* "Mark inactive and block": waitGroup.Add in its two halves, then the    *)
(* connection is cleared.                                                  *)
AddN ==
  /\ At("addN")
  /\ pc' = "addInner" /\ n' = n + 1
  /\ UNCHANGED <<inner, activeConn, cur, attempt, connOpen, rootDone, link,
                 callVars, waiter, panic>>

AddInner ==
  /\ At("addInner")
  /\ pc' = "clear" /\ InnerAdd(1)
  /\ UNCHANGED <<n, activeConn, cur, attempt, connOpen, rootDone, link, callVars>>

(* Variant: the lost connection stays in activeConn. *)
ClearForgets ==
  /\ At("clear")
  /\ pc' = "returned"
  /\ UNCHANGED <<n, inner, activeConn, cur, attempt, connOpen, rootDone, link,
                 callVars, waiter, panic>>

Clear ==
  /\ At("clear")
  /\ pc' = "returned" /\ activeConn' = NoConn
  /\ UNCHANGED <<n, inner, cur, attempt, connOpen, rootDone, link, callVars,
                 waiter, panic>>

(* connectionOnce returns: its deferred calls close the connection and     *)
(* cancel its context (CtxDone(cur) holds from here on).                   *)
Return ==
  /\ At("returned")
  /\ \E connected \in BOOLEAN : EndAttempt(connected)
  /\ UNCHANGED <<n, inner, activeConn, cur, connOpen, link, callVars, waiter, panic>>

-----------------------------------------------------------------------------
(* The link goroutine of connection c: close it, then DoneAll.             *)
(* Variant: cancelling the context does not close the connection. *)
LinkCloseForgets(c) ==
  /\ LinkAt(c, "waiting") /\ CtxDone(c)
  /\ link' = [link EXCEPT ![c] = "check"]
  /\ UNCHANGED <<n, inner, activeConn, loopVars, connOpen, rootDone, callVars,
                 waiter, panic>>

LinkClose(c) ==
  /\ LinkAt(c, "waiting") /\ CtxDone(c)
  /\ link' = [link EXCEPT ![c] = "check"]
  /\ connOpen' = (connOpen /\ c # cur)
  /\ UNCHANGED <<n, inner, activeConn, loopVars, rootDone, callVars, waiter, panic>>

LinkCheck(c) ==
  /\ LinkAt(c, "check")
  /\ link' = [link EXCEPT ![c] = IF n > 0 THEN "cas" ELSE "end"]
  /\ UNCHANGED <<n, inner, activeConn, loopVars, connOpen, rootDone, callVars,
                 waiter, panic>>

(* Variant: DoneAll calls Done without testing w.n again. *)
LinkDoneUnguarded(c) ==
  /\ LinkAt(c, "cas")
  /\ n' = n - 1 /\ link' = [link EXCEPT ![c] = "innerDone"]
  /\ UNCHANGED <<inner, activeConn, loopVars, connOpen, rootDone, callVars,
                 waiter, panic>>

LinkDone(c) ==
  /\ LinkAt(c, "cas")
  /\ IF n > 0 THEN n' = n - 1 /\ link' = [link EXCEPT ![c] = "innerDone"]
              ELSE n' = n /\ link' = [link EXCEPT ![c] = "check"]
  /\ UNCHANGED <<inner, activeConn, loopVars, connOpen, rootDone, callVars,
                 waiter, panic>>

LinkDoneInner(c) ==
  /\ LinkAt(c, "innerDone")
  /\ link' = [link EXCEPT ![c] = "check"]
  /\ InnerAdd(-1)
  /\ UNCHANGED <<n, activeConn, loopVars, connOpen, rootDone, callVars>>

-----------------------------------------------------------------------------
(* getSSH, called by pipeRemote for the proxied connection p.              *)
Finish(p, c) ==
  /\ caller' = [caller EXCEPT ![p] = "done"]
  /\ got' = [got EXCEPT ![p] = c]

Call(p) ==
  /\ CallerAt(p, "idle")
  /\ IF rootDone THEN Finish(p, NoConn)
                 ELSE caller' = [caller EXCEPT ![p] = "read"] /\ got' = got
  /\ UNCHANGED <<n, inner, activeConn, loopVars, connOpen, rootDone, link, waiter, panic>>

Read(p) ==
  /\ CallerAt(p, "read")
  /\ IF activeConn # NoConn
     THEN Finish(p, activeConn) /\ waiter' = waiter
     ELSE /\ caller' = [caller EXCEPT ![p] = "select"] /\ got' = got
          /\ waiter' = [waiter EXCEPT ![p] = "wait"]
  /\ UNCHANGED <<n, inner, activeConn, loopVars, connOpen, rootDone, link, panic>>

SelectCancelled(p) ==
  /\ CallerAt(p, "select") /\ rootDone
  /\ Finish(p, NoConn)
  /\ UNCHANGED <<n, inner, activeConn, loopVars, connOpen, rootDone, link, waiter, panic>>

SelectTimeout(p) ==            \* SSH_WAIT, 35s
  /\ CallerAt(p, "select")
  /\ Finish(p, NoConn)
  /\ UNCHANGED <<n, inner, activeConn, loopVars, connOpen, rootDone, link, waiter, panic>>

SelectReady(p) ==
  /\ CallerAt(p, "select") /\ waiter[p] = "closed"
  /\ caller' = [caller EXCEPT ![p] = "reread"]
  /\ UNCHANGED <<n, inner, activeConn, loopVars, connOpen, rootDone, link, got, waiter, panic>>

Reread(p) ==
  /\ CallerAt(p, "reread")
  /\ Finish(p, activeConn)
  /\ UNCHANGED <<n, inner, activeConn, loopVars, connOpen, rootDone, link, waiter, panic>>

(* The waiter of p: sync.WaitGroup.Wait, then close the channel.           *)
WaiterEnters(p) ==
  /\ WaiterAt(p, "wait")
  /\ waiter' = [waiter EXCEPT ![p] = IF inner = 0 THEN "closed" ELSE "parked"]
  /\ UNCHANGED <<n, inner, activeConn, loopVars, connOpen, rootDone, link, callVars, panic>>

WaiterWakes(p) ==
  /\ WaiterAt(p, "released")
  /\ waiter' = [waiter EXCEPT ![p] = "closed"]
  /\ panic' = IF inner # 0 THEN "reused" ELSE panic
  /\ UNCHANGED <<n, inner, activeConn, loopVars, connOpen, rootDone, link, callVars>>

-----------------------------------------------------------------------------
(* The environment: the connection is lost, the client is closed.          *)
ConnDrops ==
  /\ panic = "none" /\ connOpen
  /\ connOpen' = FALSE
  /\ UNCHANGED <<n, inner, activeConn, loopVars, rootDone, link, callVars, waiter, panic>>

Close ==
  /\ panic = "none" /\ ~rootDone
  /\ rootDone' = TRUE
  /\ UNCHANGED <<n, inner, activeConn, loopVars, connOpen, link, callVars, waiter, panic>>

-----------------------------------------------------------------------------
Loop == Connect \/ DialFails \/ Cancelled \/ SetActive \/ BindDone
        \/ BindDoneInner \/ WaitReturns \/ AddN \/ AddInner \/ Clear
        \/ Return
Link(c) == LinkClose(c) \/ LinkCheck(c) \/ LinkDone(c) \/ LinkDoneInner(c)
GetSSH(p) == Call(p) \/ Read(p) \/ SelectCancelled(p) \/ SelectReady(p) \/ Reread(p)
Waiter(p) == WaiterEnters(p) \/ WaiterWakes(p)
Environment == ConnDrops \/ Close \/ \E p \in Callers : SelectTimeout(p)

Next ==
  \/ Loop
  \/ \E c \in Conns : Link(c)
  \/ \E p \in Callers : GetSSH(p) \/ Waiter(p)
  \/ Environment

Spec == Init /\ [][Next]_vars

(* Go runs every goroutine that can run.  The timer, a lost connection and *)
(* Close are not to be relied on, and no call has to be made.              *)
Fairness ==
  /\ WF_vars(Loop)
  /\ \A c \in Conns : WF_vars(Link(c))
  /\ \A p \in Callers : WF_vars(Waiter(p)) /\ WF_vars(caller[p] # "idle" /\ GetSSH(p))

FairSpec == Spec /\ Fairness

-----------------------------------------------------------------------------
(* Properties.                                                             *)

(* The goroutines that have taken one from w.n and not yet from the inner  *)
(* counter.                                                                *)
Pending == {c \in Conns : link[c] = "innerDone"}

(* w.n stays 0 or 1, and the inner counter differs from it by exactly the  *)
(* halves of Add and Done that are still to come: no interleaving of       *)
(* BindSSH with the DoneAll of its own or of an older connection loses or  *)
(* repeats a Done.                                                         *)
CounterMatches ==
  /\ n \in 0..1
  /\ inner = n + Cardinality(Pending) + (IF pc = "doneInner" THEN 1 ELSE 0)
                                      - (IF pc = "addInner" THEN 1 ELSE 0)

(* The explicit panic of BindSSH is unreachable.                           *)
NoDoubleBind == panic # "double bind"

(* The one window in which the WaitGroup can be driven below zero (and the *)
(* process killed) is between the two halves of waitGroup.Add.             *)
NegativeOnlyInAdd == panic = "negative" => pc = "addInner"

(* The connection callers are given is the one the loop bound last.        *)
ActiveIsCurrent == activeConn # NoConn => activeConn = cur

(* The retry budget: attempts never exceed MaxRetryCount, and unless the   *)
(* client is closed the loop stops exactly when they reach it.             *)
GivesUpAtTheCount ==
  [][MaxRetryCount >= 0 =>
       /\ attempt' <= MaxRetryCount
       /\ pc' = "stopped" /\ ~rootDone => attempt' = MaxRetryCount]_vars

(* While the client is between two connections and not cancelled, a call   *)
(* of getSSH blocks.                                                       *)
BlocksWhileConnecting ==
  pc = "connecting" /\ ~rootDone => activeConn = NoConn /\ inner > 0

(* A caller waiting in getSSH gets its answer without the timer when a     *)
(* connection is bound and stays up.                                       *)
BindReleasesCallers ==
  \A p \in Callers :
    caller[p] = "select" /\ pc = "waiting"
      ~> caller[p] = "done" \/ pc # "waiting" \/ panic # "none"

(* Closing the client (the session) ends every goroutine that serves it.   *)
CloseEndsAll ==
  rootDone ~> \/ panic # "none"
              \/ /\ pc = "stopped" /\ ~connOpen
                 /\ \A c \in Conns : link[c] \in {"none", "end"}
                 /\ \A p \in Callers : caller[p] \in {"idle", "done"}

(* With a retry limit a client that stays unconnected stops by itself.     *)
GivesUpOrSettles ==
  <>(pc = "stopped" \/ panic # "none") \/ <>[](pc = "waiting")
=============================================================================
